---- MODULE Spec2Model ----
(***************************************************************************)
(* Model of the sign-annotator annotation store (stores/annotation-store), *)
(* its zundo undo/redo history, and the timeline gesture engine that       *)
(* commits to it.  Store operations are operators from a store record to   *)
(* a store record, so that a handler that calls several of them is their   *)
(* composition; every `set` goes through the history middleware.           *)
(***************************************************************************)
EXTENDS Integers, Sequences, FiniteSets, TLC

\* ------------------------------------------------------------------ bounds
\* Times are milliseconds; markers, pointer positions and the playhead are
\* taken from a grid of MaxTime + 1 points GridMs apart, a step wider than
\* every pixel and millisecond tolerance of the code at the default zoom.
MaxTime == 3
GridMs == 1000

Times == {i * GridMs : i \in 0..MaxTime}
durationMs == MaxTime * GridMs
Tiers == {"t1", "t2"}
Videos == {"v1", "v2"}
TypeIds == {"sign-start", "sign-end"}

\* null for ids (ids are positive: generateId never repeats)
NoId == 0

\* zundo `limit` option
limit == 100

\* ------------------------------------------------------------------ helpers
Min(a, b) == IF a <= b THEN a ELSE b
Max(a, b) == IF a >= b THEN a ELSE b

\* utils/time clamp(value, min, max)
clamp(value, lo, hi) == Max(lo, Min(hi, value))

Range(seq) == {seq[i] : i \in 1..Len(seq)}

\* Array.prototype.findIndex (1-based; 0 when nothing matches); the test is
\* given as the set of elements that pass it
FindIndex(seq, passing) ==
  LET I == {i \in 1..Len(seq) : seq[i] \in passing}
  IN  IF I = {} THEN 0 ELSE CHOOSE i \in I : \A j \in I : i <= j

\* Array.prototype.filter, the test given as the set of elements that pass it
Filter(seq, passing) == SelectSeq(seq, LAMBDA x : x \in passing)
\* Array.prototype.map, the callback given as a function on the elements
Map(seq, f) == [i \in 1..Len(seq) |-> f[seq[i]]]

\* markers.find((m) => m.id === id): the marker, or the null record
NullMarker == [id |-> NoId, time |-> 0, typeId |-> "", tierId |-> "", videoId |-> "", confirmed |-> FALSE]
FindMarker(ms, id) ==
  LET i == FindIndex(ms, {m \in Range(ms) : m.id = id})
  IN  IF i = 0 THEN NullMarker ELSE ms[i]
HasMarker(ms, id) == \E i \in 1..Len(ms) : ms[i].id = id

NullSpan == [id |-> NoId, startMarkerId |-> NoId, endMarkerId |-> NoId, tierId |-> "", videoId |-> "", gloss |-> ""]
FindSpan(sps, id) ==
  LET i == FindIndex(sps, {sp \in Range(sps) : sp.id = id})
  IN  IF i = 0 THEN NullSpan ELSE sps[i]
HasSpan(sps, id) == \E i \in 1..Len(sps) : sps[i].id = id

\* the argument of addSpan: a span without id, with an empty gloss
NewSpan(a, b, tier, v) ==
  [id |-> NoId, startMarkerId |-> a, endMarkerId |-> b, tierId |-> tier, videoId |-> v, gloss |-> ""]

\* A span both of whose anchor markers resolve
Resolves(ms, sp) == HasMarker(ms, sp.startMarkerId) /\ HasMarker(ms, sp.endMarkerId)
\* effective interval [min, max] of the two anchors' times
SpanStartMs(ms, sp) == Min(FindMarker(ms, sp.startMarkerId).time, FindMarker(ms, sp.endMarkerId).time)
SpanEndMs(ms, sp) == Max(FindMarker(ms, sp.startMarkerId).time, FindMarker(ms, sp.endMarkerId).time)

\* ------------------------------------------------------------------ zundo
\* partialize: the part of the state that history snapshots hold
partialize(s) == [markers |-> s.markers, spans |-> s.spans]

\* temporal store _handleSet: push the pre-set snapshot, drop the redo stack
temporalHandleSet(s, pastState) ==
  LET ps == IF Len(s.pastStates) >= limit THEN Tail(s.pastStates) ELSE s.pastStates
  IN  [s EXCEPT !.pastStates = Append(ps, pastState), !.futureStates = <<>>]

\* options.handleSet: record, then clear orphaned pending/selected marker ids
\* with store.setState, which is itself wrapped and so records once more
handleSet(s, pastState) ==
  LET s1 == temporalHandleSet(s, pastState)
      dropPending == s1.pendingMarkerId # NoId /\ ~HasMarker(s1.markers, s1.pendingMarkerId)
      dropSelected == s1.selectedMarkerId # NoId /\ ~HasMarker(s1.markers, s1.selectedMarkerId)
      s2 == [s1 EXCEPT !.pendingMarkerId = IF dropPending THEN NoId ELSE @,
                       !.selectedMarkerId = IF dropSelected THEN NoId ELSE @]
  IN  IF dropPending \/ dropSelected
      THEN temporalHandleSet(s2, partialize(s1))
      ELSE s1

\* the wrapped `set` handed to the store creator: s is the state before the
\* call, new the state the partial update produces
set(s, new) == handleSet(new, partialize(s))

\* temporal.undo() / temporal.redo(), one step: they apply the snapshot
\* with the unwrapped set, so nothing is recorded and handleSet does not run
undo(s) ==
  IF Len(s.pastStates) = 0 THEN s
  ELSE LET n == Len(s.pastStates)
           nextState == s.pastStates[n]
       IN  [s EXCEPT !.markers = nextState.markers,
                     !.spans = nextState.spans,
                     !.pastStates = SubSeq(s.pastStates, 1, n - 1),
                     !.futureStates = Append(s.futureStates, partialize(s))]

redo(s) ==
  IF Len(s.futureStates) = 0 THEN s
  ELSE LET n == Len(s.futureStates)
           nextState == s.futureStates[n]
       IN  [s EXCEPT !.markers = nextState.markers,
                     !.spans = nextState.spans,
                     !.pastStates = Append(s.pastStates, partialize(s)),
                     !.futureStates = SubSeq(s.futureStates, 1, n - 1)]

\* ------------------------------------------------------------------ store
\* the store after construction
EmptyStore ==
  [markers |-> <<>>, spans |-> <<>>,
   selectedMarkerId |-> NoId, pendingMarkerId |-> NoId,
   selectedSpanId |-> NoId, editingSpanId |-> NoId,
   pastStates |-> <<>>, futureStates |-> <<>>,
   nextId |-> 1]

\* placeMarker: generateId gives a fresh id (its return value is s.nextId)
placeMarker(s, time, tierId, videoId) ==
  LET id == s.nextId
      marker == [id |-> id, time |-> time, typeId |-> "", tierId |-> tierId,
                 videoId |-> videoId, confirmed |-> FALSE]
  IN  set(s, [s EXCEPT !.markers = Append(@, marker),
                       !.selectedMarkerId = id,
                       !.pendingMarkerId = id,
                       !.nextId = @ + 1])

\* confirmMarker: the end marker of the first span that strictly contains the
\* marker's time on its tier+video is snapped to that time
SnapEndMarkerId(s, marker) ==
  LET i == FindIndex(s.spans, {span \in Range(s.spans) :
             /\ span.tierId = marker.tierId /\ span.videoId = marker.videoId
             /\ Resolves(s.markers, span)
             /\ marker.time > SpanStartMs(s.markers, span)
             /\ marker.time < SpanEndMs(s.markers, span)})
  IN  IF i = 0 THEN NoId ELSE s.spans[i].endMarkerId

confirmMarker(s, markerId, typeId) ==
  IF ~HasMarker(s.markers, markerId) THEN s
  ELSE LET marker == FindMarker(s.markers, markerId)
           snapEndMarkerId == SnapEndMarkerId(s, marker)
       IN  set(s, [s EXCEPT
             !.markers = Map(@, [m \in Range(@) |->
                 IF m.id = markerId THEN [m EXCEPT !.typeId = typeId, !.confirmed = TRUE]
                 ELSE IF snapEndMarkerId # NoId /\ m.id = snapEndMarkerId
                      THEN [m EXCEPT !.time = marker.time]
                      ELSE m]),
             !.pendingMarkerId = IF @ = markerId THEN NoId ELSE @])

cancelPendingMarker(s) ==
  IF s.pendingMarkerId = NoId THEN s
  ELSE set(s, [s EXCEPT
         !.markers = Filter(@, {m \in Range(@) : m.id # s.pendingMarkerId}),
         !.pendingMarkerId = NoId,
         !.selectedMarkerId = IF @ = s.pendingMarkerId THEN NoId ELSE @])

removeMarker(s, id) ==
  set(s, [s EXCEPT
    !.markers = Filter(@, {m \in Range(@) : m.id # id}),
    !.selectedMarkerId = IF @ = id THEN NoId ELSE @,
    !.pendingMarkerId = IF @ = id THEN NoId ELSE @,
    !.spans = Filter(@, {sp \in Range(@) : sp.startMarkerId # id /\ sp.endMarkerId # id})])

nudgeMarkerUnclamped(s, id, deltaMs, maxMs) ==
  set(s, [s EXCEPT !.markers = Map(@, [m \in Range(@) |->
    IF m.id = id THEN [m EXCEPT !.time = m.time + deltaMs] ELSE m])])

nudgeMarker(s, id, deltaMs, maxMs) ==
  set(s, [s EXCEPT !.markers = Map(@, [m \in Range(@) |->
    IF m.id = id THEN [m EXCEPT !.time = clamp(m.time + deltaMs, 0, maxMs)] ELSE m])])

selectMarker(s, id) ==
  set(s, [s EXCEPT !.selectedMarkerId = id,
                   !.selectedSpanId = IF id # NoId THEN NoId ELSE @,
                   !.editingSpanId = IF id # NoId THEN NoId ELSE @])

\* markers.filter(videoId && confirmed).sort(by time) as the sequence of
\* positions in s.markers (the sort is stable: ties keep list order)
FirstBy(s, videoId, descending, passing) ==
  LET I == {i \in 1..Len(s.markers) :
              s.markers[i].videoId = videoId /\ s.markers[i].confirmed /\ s.markers[i] \in passing}
      before(i, j) ==
        IF s.markers[i].time = s.markers[j].time THEN i <= j
        ELSE IF descending THEN s.markers[i].time > s.markers[j].time
             ELSE s.markers[i].time < s.markers[j].time
  IN  IF I = {} THEN NoId
      ELSE s.markers[CHOOSE i \in I : \A j \in I : before(i, j)].id

selectNextMarker(s, videoId, currentMs) ==
  LET next == FirstBy(s, videoId, FALSE, {m \in Range(s.markers) : m.time > currentMs + 1})
      first == FirstBy(s, videoId, FALSE, Range(s.markers))
  IN  IF next # NoId THEN set(s, [s EXCEPT !.selectedMarkerId = next])
      ELSE IF first # NoId THEN set(s, [s EXCEPT !.selectedMarkerId = first])
      ELSE s

selectPrevMarker(s, videoId, currentMs) ==
  LET prev == FirstBy(s, videoId, TRUE, {m \in Range(s.markers) : m.time < currentMs - 1})
      first == FirstBy(s, videoId, TRUE, Range(s.markers))
  IN  IF prev # NoId THEN set(s, [s EXCEPT !.selectedMarkerId = prev])
      ELSE IF first # NoId THEN set(s, [s EXCEPT !.selectedMarkerId = first])
      ELSE s

updateMarkerTime(s, id, time) ==
  set(s, [s EXCEPT !.markers = Map(@, [m \in Range(@) |->
    IF m.id = id THEN [m EXCEPT !.time = time] ELSE m])])

reclassifyMarker(s, id, newTypeId) ==
  set(s, [s EXCEPT !.markers = Map(@, [m \in Range(@) |->
    IF m.id = id /\ m.confirmed THEN [m EXCEPT !.typeId = newTypeId] ELSE m])])

\* addSpan: the `overlapping` test against the existing spans
Overlapping(s, span) ==
  LET newStartMs == SpanStartMs(s.markers, span)
      newEndMs == SpanEndMs(s.markers, span)
  IN  \E i \in 1..Len(s.spans) :
        LET existing == s.spans[i]
        IN  /\ existing.tierId = span.tierId /\ existing.videoId = span.videoId
            /\ Resolves(s.markers, existing)
            /\ newStartMs < SpanEndMs(s.markers, existing)
            /\ SpanStartMs(s.markers, existing) < newEndMs

\* would addSpan(span) add the span?
addSpanAccepts(s, span) == Resolves(s.markers, span) /\ ~Overlapping(s, span)

addSpan(s, span) ==
  IF ~addSpanAccepts(s, span) THEN s
  ELSE set(s, [s EXCEPT !.spans = Append(@, [span EXCEPT !.id = s.nextId]),
                        !.nextId = @ + 1])

removeSpan(s, id) ==
  set(s, [s EXCEPT !.spans = Filter(@, {sp \in Range(@) : sp.id # id})])

selectSpan(s, id) ==
  set(s, [s EXCEPT !.selectedSpanId = id,
                   !.editingSpanId = NoId,
                   !.selectedMarkerId = IF id # NoId THEN NoId ELSE @])

setEditingSpan(s, id) == set(s, [s EXCEPT !.editingSpanId = id])

updateSpanGloss(s, id, gloss) ==
  set(s, [s EXCEPT !.spans = [i \in 1..Len(@) |->
                                IF @[i].id = id THEN [@[i] EXCEPT !.gloss = gloss] ELSE @[i]]])

\* mergeSpans with its third-span safety check left out
OverlapsThirdUnchecked(s, keepSpanId, removeSpanId) == FALSE

\* mergeSpans: the validation that precedes any mutation (its return value)
OverlapsThird(s, keepSpanId, removeSpanId) ==
  LET keepSpan == FindSpan(s.spans, keepSpanId)
      removeSpan_ == FindSpan(s.spans, removeSpanId)
      mergedStartMs == Min(SpanStartMs(s.markers, keepSpan), SpanStartMs(s.markers, removeSpan_))
      mergedEndMs == Max(SpanEndMs(s.markers, keepSpan), SpanEndMs(s.markers, removeSpan_))
  IN  \E i \in 1..Len(s.spans) :
        LET sp == s.spans[i]
        IN  /\ sp.id # keepSpanId /\ sp.id # removeSpanId
            /\ sp.tierId = keepSpan.tierId /\ sp.videoId = keepSpan.videoId
            /\ Resolves(s.markers, sp)
            /\ mergedStartMs < SpanEndMs(s.markers, sp)
            /\ SpanStartMs(s.markers, sp) < mergedEndMs

mergeSpansReturns(s, keepSpanId, removeSpanId) ==
  /\ HasSpan(s.spans, keepSpanId) /\ HasSpan(s.spans, removeSpanId)
  /\ FindSpan(s.spans, keepSpanId).tierId = FindSpan(s.spans, removeSpanId).tierId
  /\ FindSpan(s.spans, keepSpanId).videoId = FindSpan(s.spans, removeSpanId).videoId
  /\ Resolves(s.markers, FindSpan(s.spans, keepSpanId))
  /\ Resolves(s.markers, FindSpan(s.spans, removeSpanId))
  /\ ~OverlapsThird(s, keepSpanId, removeSpanId)

\* the two glosses joined without filter(Boolean)
CombinedGlossUnfiltered(a, b) == a \o " + " \o b

\* glossParts.filter(Boolean).join(' + ')
CombinedGloss(a, b) ==
  IF a = "" THEN b ELSE IF b = "" THEN a ELSE a \o " + " \o b

mergeSpans(s, keepSpanId, removeSpanId) ==
  IF ~mergeSpansReturns(s, keepSpanId, removeSpanId) THEN s
  ELSE LET keepSpan == FindSpan(s.spans, keepSpanId)
           removeSpan_ == FindSpan(s.spans, removeSpanId)
           isKeepFirst == SpanStartMs(s.markers, keepSpan) <= SpanStartMs(s.markers, removeSpan_)
           finalStartMarkerId == IF isKeepFirst THEN keepSpan.startMarkerId ELSE removeSpan_.startMarkerId
           finalEndMarkerId == IF isKeepFirst THEN removeSpan_.endMarkerId ELSE keepSpan.endMarkerId
           removeMarkerIds ==
             { IF isKeepFirst THEN keepSpan.endMarkerId ELSE removeSpan_.endMarkerId,
               IF isKeepFirst THEN removeSpan_.startMarkerId ELSE keepSpan.startMarkerId }
             \ {finalStartMarkerId, finalEndMarkerId}
           combinedGloss == CombinedGloss(keepSpan.gloss, removeSpan_.gloss)
       IN  set(s, [s EXCEPT
             !.markers = Filter(@, {m \in Range(@) : m.id \notin removeMarkerIds}),
             !.spans = Map(Filter(@, {sp \in Range(@) : sp.id # removeSpanId}), [sp \in Range(@) |->
                 IF sp.id = keepSpanId
                 THEN [sp EXCEPT !.startMarkerId = finalStartMarkerId,
                                 !.endMarkerId = finalEndMarkerId,
                                 !.gloss = combinedGloss]
                 ELSE sp]),
             !.selectedSpanId = keepSpanId,
             !.selectedMarkerId = NoId])

\* clearOverlappingSpans: what the loop decides for one span
\* ("skip", "remove", "trimEnd" to startMs, "trimStart" to endMs)
ClearCase(s, span, startMs, endMs, tierId, videoId) ==
  IF span.tierId # tierId \/ span.videoId # videoId \/ ~Resolves(s.markers, span) THEN "skip"
  ELSE LET sTime == SpanStartMs(s.markers, span)
           eTime == SpanEndMs(s.markers, span)
       IN  IF sTime >= endMs \/ eTime <= startMs THEN "skip"
           ELSE IF sTime >= startMs /\ eTime <= endMs THEN "remove"
           ELSE IF sTime < startMs /\ eTime > endMs THEN "trimEnd"
           ELSE IF sTime < startMs THEN "trimEnd"
           ELSE "trimStart"

\* the marker a trimmed span moves: its chronologically later (trimEnd) or
\* earlier (trimStart) anchor
TrimTarget(s, span, case) ==
  LET forward == FindMarker(s.markers, span.startMarkerId).time <= FindMarker(s.markers, span.endMarkerId).time
  IN  IF case = "trimEnd"
      THEN (IF forward THEN span.endMarkerId ELSE span.startMarkerId)
      ELSE (IF forward THEN span.startMarkerId ELSE span.endMarkerId)

clearOverlappingSpans(s, startMs, endMs, tierId, videoId) ==
  LET case(i) == ClearCase(s, s.spans[i], startMs, endMs, tierId, videoId)
      idx == 1..Len(s.spans)
      removeSpanIds == {s.spans[i].id : i \in {j \in idx : case(j) = "remove"}}
      removeMarkerIds == UNION {{s.spans[i].startMarkerId, s.spans[i].endMarkerId} :
                                  i \in {j \in idx : case(j) = "remove"}}
      trims == {j \in idx : case(j) \in {"trimEnd", "trimStart"}}
      \* markerTimeUpdates is a Map: the last span to set a marker's time wins
      setters(id) == {j \in trims : TrimTarget(s, s.spans[j], case(j)) = id}
      lastSetter(id) == CHOOSE j \in setters(id) : \A k \in setters(id) : k <= j
      updated == [m \in Range(s.markers) |->
        IF setters(m.id) = {} THEN m
        ELSE [m EXCEPT !.time = IF case(lastSetter(m.id)) = "trimEnd" THEN startMs ELSE endMs]]
  IN  IF removeSpanIds = {} /\ trims = {} THEN s
      ELSE set(s, [s EXCEPT
             !.markers = Map(Filter(@, {m \in Range(@) : m.id \notin removeMarkerIds}), updated),
             !.spans = Filter(@, {sp \in Range(@) : sp.id \notin removeSpanIds})])

clearVideoAnnotations(s, videoId) ==
  set(s, [s EXCEPT !.markers = Filter(@, {m \in Range(@) : m.videoId # videoId}),
                   !.spans = Filter(@, {sp \in Range(@) : sp.videoId # videoId})])

setMarkers(s, ms) == set(s, [s EXCEPT !.markers = ms])
setSpans(s, sps) == set(s, [s EXCEPT !.spans = sps])

\* ------------------------------------------------------------------ timeline
\* The timeline canvas (components/timeline/Timeline) at the default zoom with
\* no scroll, the current video "v1", every tier visible and unlocked.  A
\* world w holds the annotation store (ann), the video store's currentTime in
\* ms, and the component's dragRef and scrubRef.  Only what decides markers
\* and spans is kept: tooltips, cursor and dirty flags are left out, and the
\* click bookkeeping (startX, justDraggedRef) is in the click section.
TIMELINE_DEFAULT_ZOOM == 100
MARKER_HIT_WIDTH == 8
SPAN_EDGE_PX == 8
MERGE_SNAP_PX == 15
TIER_HEIGHT == 36

currentVideoId == "v1"
NoTime == -1

Abs(x) == IF x < 0 THEN -x ELSE x
\* |msToSec(a) * zoom - msToSec(b) * zoom| in thousandths of a pixel
DistPx(a, b) == Abs(a - b) * TIMELINE_DEFAULT_ZOOM

\* useVideoStore.subscribe in useKeyboardShortcuts: a pending marker follows
\* every change of currentTime
syncPendingMarker(ann, prevTime, time) ==
  IF time = prevTime \/ ann.pendingMarkerId = NoId THEN ann
  ELSE updateMarkerTime(ann, ann.pendingMarkerId, time)

\* useVideoStore.seek, with the subscription it fires
seek(w, time) ==
  LET clamped == clamp(time, 0, durationMs)
  IN  [w EXCEPT !.currentTime = clamped,
                !.ann = syncPendingMarker(@, w.currentTime, clamped)]

\* findMarkersAt(x, y) for a pointer at time x in the row of tier `row`
findMarkersAt(ann, x, row) ==
  SelectSeq(ann.markers, LAMBDA m :
    /\ m.videoId = currentVideoId
    /\ m.tierId = row
    /\ DistPx(x, m.time) < MARKER_HIT_WIDTH * 1000)

\* findSpanAt(x, y): position in ann.spans of the span hit (0: none) and the
\* part of it that was hit
SpanHitAt(ann, x, row, i) ==
  LET span == ann.spans[i]
      x1 == FindMarker(ann.markers, span.startMarkerId).time
      x2 == FindMarker(ann.markers, span.endMarkerId).time
  IN  /\ span.videoId = currentVideoId
      /\ Resolves(ann.markers, span)
      /\ span.tierId = row
      /\ x * TIMELINE_DEFAULT_ZOOM >= x1 * TIMELINE_DEFAULT_ZOOM - SPAN_EDGE_PX * 1000
      /\ x * TIMELINE_DEFAULT_ZOOM <= x2 * TIMELINE_DEFAULT_ZOOM + SPAN_EDGE_PX * 1000

findSpanAt(ann, x, row) ==
  LET I == {i \in 1..Len(ann.spans) : SpanHitAt(ann, x, row, i)}
  IN  IF I = {} THEN 0 ELSE CHOOSE i \in I : \A j \in I : i <= j

SpanHitEdge(ann, x, span) ==
  IF DistPx(x, FindMarker(ann.markers, span.startMarkerId).time) <= SPAN_EDGE_PX * 1000 THEN "left"
  ELSE IF DistPx(x, FindMarker(ann.markers, span.endMarkerId).time) <= SPAN_EDGE_PX * 1000 THEN "right"
  ELSE "middle"

\* dragRef.current: null, or the gesture in progress
NoDrag ==
  [mode |-> "none", markerId |-> NoId, tierId |-> "", videoId |-> "",
   currentTimeMs |-> NoTime, originalTimeMs |-> NoTime, spanId |-> NoId,
   secondMarkerId |-> NoId, secondOriginalTimeMs |-> NoTime, clickAnchorMs |-> NoTime,
   startMarkerOrigMs |-> NoTime, endMarkerOrigMs |-> NoTime,
   inMergeZone |-> FALSE, mergeTargetSpanId |-> NoId]

Drag(mode, markerId, tierId, videoId, timeMs) ==
  [NoDrag EXCEPT !.mode = mode, !.markerId = markerId, !.tierId = tierId,
                 !.videoId = videoId, !.currentTimeMs = timeMs, !.originalTimeMs = timeMs]

\* handlePointerDown for a pointer at time x, on the ruler (row "ruler") or in
\* the row of a tier at height yInTier
handlePointerDown(w, x, row, yInTier) ==
  IF row = "ruler" THEN seek([w EXCEPT !.scrubRef = TRUE], x)
  ELSE
    LET hits == findMarkersAt(w.ann, x, row)
        spanIdx == findSpanAt(w.ann, x, row)
    IN  IF Len(hits) >= 1 THEN
          LET marker == hits[1]
              isTopHalf == 2 * yInTier < TIER_HEIGHT
              edgeIdx == FindIndex(w.ann.spans, {sp \in Range(w.ann.spans) :
                           sp.startMarkerId = marker.id \/ sp.endMarkerId = marker.id})
          IN  IF isTopHalf /\ edgeIdx # 0 THEN
                [w EXCEPT !.dragRef = [Drag("span-resize", marker.id, marker.tierId, marker.videoId, marker.time)
                                         EXCEPT !.spanId = w.ann.spans[edgeIdx].id],
                          !.ann = selectSpan(@, w.ann.spans[edgeIdx].id)]
              ELSE IF isTopHalf THEN
                [w EXCEPT !.dragRef = Drag("span", marker.id, marker.tierId, marker.videoId, marker.time),
                          !.ann = selectMarker(@, marker.id)]
              ELSE
                [w EXCEPT !.dragRef = Drag("move", marker.id, marker.tierId, marker.videoId, marker.time),
                          !.ann = selectMarker(@, marker.id)]
        ELSE IF spanIdx # 0 THEN
          LET span == w.ann.spans[spanIdx]
              edge == SpanHitEdge(w.ann, x, span)
              startTimeMs == FindMarker(w.ann.markers, span.startMarkerId).time
              endTimeMs == FindMarker(w.ann.markers, span.endMarkerId).time
              clickTimeMs == clamp(x, 0, durationMs)
          IN  [w EXCEPT
                !.dragRef =
                  IF edge = "left" THEN
                    [Drag("span-resize", span.startMarkerId, span.tierId, span.videoId, startTimeMs)
                       EXCEPT !.spanId = span.id]
                  ELSE IF edge = "right" THEN
                    [Drag("span-resize", span.endMarkerId, span.tierId, span.videoId, endTimeMs)
                       EXCEPT !.spanId = span.id]
                  ELSE
                    [Drag("span-move", span.startMarkerId, span.tierId, span.videoId, startTimeMs)
                       EXCEPT !.secondMarkerId = span.endMarkerId,
                              !.secondOriginalTimeMs = endTimeMs,
                              !.clickAnchorMs = clickTimeMs,
                              !.startMarkerOrigMs = startTimeMs,
                              !.endMarkerOrigMs = endTimeMs],
                !.ann = selectSpan(@, span.id)]
        ELSE
          \* draw a new span from the empty area of an unlocked tier
          seek([w EXCEPT !.dragRef = Drag("draw", NoId, row, currentVideoId, clamp(x, 0, durationMs))], x)

\* handlePointerMove, span-resize: the merge snap (bestSnap) among the other
\* spans of the resized span's tier and video: <<span id, edge time>>, or
\* <<NoId, NoTime>>.  The first candidate at the least distance wins.
sameSpans(ann, resizeSpan) ==
  {i \in 1..Len(ann.spans) :
     /\ ann.spans[i].id # resizeSpan.id
     /\ ann.spans[i].tierId = resizeSpan.tierId
     /\ ann.spans[i].videoId = resizeSpan.videoId}

bestSnap(ann, resizeSpan, timeMs) ==
  LET edgeMs(i, k) == IF k = 1 THEN FindMarker(ann.markers, ann.spans[i].startMarkerId).time
                      ELSE FindMarker(ann.markers, ann.spans[i].endMarkerId).time
      cands == {c \in {i \in sameSpans(ann, resizeSpan) : Resolves(ann.markers, ann.spans[i])} \X {1, 2} :
                  DistPx(edgeMs(c[1], c[2]), timeMs) < MERGE_SNAP_PX * 1000}
      earlier(c, d) == c[1] < d[1] \/ (c[1] = d[1] /\ c[2] <= d[2])
      best == CHOOSE c \in cands : \A d \in cands :
                \/ DistPx(edgeMs(c[1], c[2]), timeMs) < DistPx(edgeMs(d[1], d[2]), timeMs)
                \/ /\ DistPx(edgeMs(c[1], c[2]), timeMs) = DistPx(edgeMs(d[1], d[2]), timeMs)
                   /\ earlier(c, d)
  IN  IF cands = {} THEN <<NoId, NoTime>>
      ELSE <<ann.spans[best[1]].id, edgeMs(best[1], best[2])>>

\* an edge held only inside the video
ResizeBoundsOfVideo(ann, resizeSpan, isStartEdge, anchorMs) == <<0, durationMs>>

\* handlePointerMove, span-resize: the overlap clamp [lower, upper] of the edge
\* being dragged
ResizeBounds(ann, resizeSpan, isStartEdge, anchorMs) ==
  LET adj == {i \in sameSpans(ann, resizeSpan) : Resolves(ann.markers, ann.spans[i])}
      adjEnds == {SpanEndMs(ann.markers, ann.spans[i]) : i \in adj}
      adjStarts == {SpanStartMs(ann.markers, ann.spans[i]) : i \in adj}
      below == {e \in adjEnds : e <= anchorMs} \cup {0}
      above == {b \in adjStarts : b >= anchorMs} \cup {durationMs}
  IN  IF isStartEdge
      THEN <<CHOOSE e \in below : \A f \in below : f <= e, anchorMs>>
      ELSE <<anchorMs, CHOOSE b \in above : \A c \in above : b <= c>>

handlePointerMove(w, x) ==
  LET timeMs == clamp(x, 0, durationMs)
      d == w.dragRef
  IN  IF w.scrubRef THEN seek(w, x)
      ELSE IF d.mode = "none" THEN w
      ELSE IF d.mode = "span-move" THEN
        LET deltaMs == timeMs - d.clickAnchorMs
            clampedDelta == clamp(deltaMs, -d.startMarkerOrigMs, durationMs - d.endMarkerOrigMs)
            cur == d.startMarkerOrigMs + clampedDelta
            second == d.endMarkerOrigMs + clampedDelta
        IN  seek([w EXCEPT !.dragRef.currentTimeMs = cur,
                           !.dragRef.secondOriginalTimeMs = second],
                 (cur + second + 1) \div 2)
      ELSE IF d.mode = "span-resize" THEN
        LET w1 == seek(w, x)
            ann == w1.ann
            resizeSpan == FindSpan(ann.spans, d.spanId)
        IN  IF ~HasSpan(ann.spans, d.spanId) THEN [w1 EXCEPT !.dragRef.currentTimeMs = timeMs]
            ELSE
              LET isStartEdge == d.markerId = resizeSpan.startMarkerId
                  anchorMarkerId == IF isStartEdge THEN resizeSpan.endMarkerId ELSE resizeSpan.startMarkerId
                  anchorMs == IF HasMarker(ann.markers, anchorMarkerId)
                              THEN FindMarker(ann.markers, anchorMarkerId).time ELSE 0
                  snap == bestSnap(ann, resizeSpan, timeMs)
                  bounds == ResizeBounds(ann, resizeSpan, isStartEdge, anchorMs)
              IN  IF snap[1] # NoId
                  THEN [w1 EXCEPT !.dragRef.currentTimeMs = snap[2],
                                  !.dragRef.mergeTargetSpanId = snap[1],
                                  !.dragRef.inMergeZone = TRUE]
                  ELSE [w1 EXCEPT !.dragRef.currentTimeMs = clamp(timeMs, bounds[1], bounds[2]),
                                  !.dragRef.mergeTargetSpanId = NoId,
                                  !.dragRef.inMergeZone = FALSE]
      ELSE seek([w EXCEPT !.dragRef.currentTimeMs = timeMs], x)

\* handlePointerUp: select the span just created for gloss editing
selectNewSpan(ann, startMarkerId, endMarkerId) ==
  LET i == FindIndex(ann.spans, {sp \in Range(ann.spans) :
             sp.startMarkerId = startMarkerId /\ sp.endMarkerId = endMarkerId})
  IN  IF i = 0 THEN ann
      ELSE setEditingSpan(selectSpan(ann, ann.spans[i].id), ann.spans[i].id)

\* handlePointerUp, mode 'span': a second marker at the release position,
\* confirmed like the source marker, and a span between the two
commitSpanDrag(ann, d) ==
  LET endTimeMs == d.currentTimeMs
      startTimeMs == d.originalTimeMs
      sourceMarker == FindMarker(ann.markers, d.markerId)
      a1 == placeMarker(ann, endTimeMs, d.tierId, d.videoId)
      endMarkerId == a1.pendingMarkerId
      a2 == IF sourceMarker.confirmed /\ sourceMarker.typeId # ""
            THEN confirmMarker(a1, endMarkerId, sourceMarker.typeId) ELSE a1
      actualStartId == IF endTimeMs > startTimeMs THEN d.markerId ELSE endMarkerId
      actualEndId == IF endTimeMs > startTimeMs THEN endMarkerId ELSE d.markerId
      a3 == addSpan(a2, NewSpan(actualStartId, actualEndId, d.tierId, d.videoId))
  IN  IF Abs(endTimeMs - startTimeMs) > 50 /\ HasMarker(ann.markers, d.markerId)
      THEN (IF endMarkerId # NoId THEN selectNewSpan(a3, actualStartId, actualEndId) ELSE a1)
      ELSE ann

\* handlePointerUp, mode 'draw': two markers and a span from the empty area
commitDraw(ann, d) ==
  LET startMs == Min(d.originalTimeMs, d.currentTimeMs)
      endMs == Max(d.originalTimeMs, d.currentTimeMs)
      startMarkerId == ann.nextId
      a1 == placeMarker(ann, startMs, d.tierId, d.videoId)
      endMarkerId == a1.nextId
      a2 == placeMarker(a1, endMs, d.tierId, d.videoId)
      a3 == addSpan(a2, NewSpan(startMarkerId, endMarkerId, d.tierId, d.videoId))
  IN  IF endMs - startMs > 50 THEN selectNewSpan(a3, startMarkerId, endMarkerId) ELSE ann

\* a release that commits the edge and never merges
commitResizeNoMerge(ann, d) ==
  IF d.currentTimeMs # d.originalTimeMs
  THEN updateMarkerTime(ann, d.markerId, d.currentTimeMs) ELSE ann

\* handlePointerUp, mode 'span-resize': commit the edge, and merge when the
\* edge was released in the merge zone of a neighbour
commitResize(ann, d) ==
  LET a1 == IF d.currentTimeMs # d.originalTimeMs
            THEN updateMarkerTime(ann, d.markerId, d.currentTimeMs) ELSE ann
  IN  IF d.inMergeZone /\ d.mergeTargetSpanId # NoId /\ d.spanId # NoId
      THEN mergeSpans(a1, d.spanId, d.mergeTargetSpanId)
      ELSE a1

\* handlePointerUp, mode 'span-move': commit both markers
commitSpanMove(ann, d) ==
  LET a1 == IF d.currentTimeMs # d.startMarkerOrigMs
            THEN updateMarkerTime(ann, d.markerId, d.currentTimeMs) ELSE ann
  IN  IF d.secondMarkerId # NoId /\ d.secondOriginalTimeMs # d.endMarkerOrigMs
      THEN updateMarkerTime(a1, d.secondMarkerId, d.secondOriginalTimeMs)
      ELSE a1

handlePointerUp(w) ==
  LET d == w.dragRef
  IN  IF w.scrubRef THEN [w EXCEPT !.scrubRef = FALSE]
      ELSE IF d.mode = "none" THEN w
      ELSE [w EXCEPT
             !.dragRef = NoDrag,
             !.ann = IF d.mode = "move"
                       THEN (IF d.currentTimeMs # d.originalTimeMs
                             THEN updateMarkerTime(@, d.markerId, d.currentTimeMs) ELSE @)
                     ELSE IF d.mode = "span" THEN commitSpanDrag(@, d)
                     ELSE IF d.mode = "draw" THEN commitDraw(@, d)
                     ELSE IF d.mode = "span-resize" THEN commitResize(@, d)
                     ELSE commitSpanMove(@, d)]

\* --------------------------------------------------------------- keyboard
\* useKeyboardShortcuts with the default marker types sign-start (key "s") and
\* sign-end (key "e"), both allowed on every tier, the active tier "t1"
\* visible and unlocked, no dialog open and no text field focused.  The world
\* w also holds the video store's isPlaying, the project store's current
\* video (videoId), the hook's holdRef and the ui store's activeHold.  Flashes
\* are left out, and so are auto-repeat key events: while a hold is tracked
\* they are ignored for the held key.
activeTierId == "t1"
TypeKeys == {"s", "e"}

\* settings.markerTypes.find((mt) => mt.key === key && allowed on the tier)
markerTypeOfKey(key) == IF key = "s" THEN "sign-start" ELSE IF key = "e" THEN "sign-end" ELSE ""

\* isEndType: the id ends in "-end" or the type's name contains "end"
isEndType(typeId) == typeId = "sign-end"
\* findPairedStartType: "x-end" gives "x-start" when that type exists, else
\* the first type with "start" in its name
findPairedStartType(endTypeId) == "sign-start"
\* the "-end" type of a "-start" type when the tier allows it, else the type
PairedEndType(typeId) == IF typeId = "sign-start" THEN "sign-end" ELSE typeId

\* holdRef.current: null, or the HoldState of the held key
NoHold ==
  [key |-> "", startMarkerId |-> NoId, typeId |-> "", tierId |-> "", videoId |-> "",
   existingSpanId |-> NoId]
\* useUiStore activeHold: null, or the hold the timeline draws (its colour
\* is left out)
NoActiveHold == [startMarkerId |-> NoId, startTimeMs |-> NoTime, tierId |-> ""]
ActiveHold(startMarkerId, startTimeMs, tierId) ==
  [startMarkerId |-> startMarkerId, startTimeMs |-> startTimeMs, tierId |-> tierId]
HoldState(key, startMarkerId, typeId, tierId, videoId, existingSpanId) ==
  [key |-> key, startMarkerId |-> startMarkerId, typeId |-> typeId, tierId |-> tierId,
   videoId |-> videoId, existingSpanId |-> existingSpanId]

\* spans.find((sp) => sp.startMarkerId === a && sp.endMarkerId === b)?.id
SpanIdOn(sps, a, b) ==
  LET i == FindIndex(sps, {sp \in Range(sps) : sp.startMarkerId = a /\ sp.endMarkerId = b})
  IN  IF i = 0 THEN NoId ELSE sps[i].id

\* among the positions I of ms, the one of the greatest time; of several
\* with that time the last one (lastOfTies) or the first one
LatestOf(ms, I, lastOfTies) ==
  CHOOSE i \in I : \A j \in I :
    \/ ms[i].time > ms[j].time
    \/ ms[i].time = ms[j].time /\ (IF lastOfTies THEN i >= j ELSE i <= j)

\* newSpans.find(...) and selectSpan: the span on the two anchors, when it
\* is there, becomes the selection
selectSpanOn(ann, a, b) ==
  LET id == SpanIdOn(ann.spans, a, b)
  IN  IF id # NoId THEN selectSpan(ann, id) ELSE ann

\* handleEndMarkerPairing, case 3: a start marker at 0 and a span from it
pairWithNewStart(ann, marker, startTypeId) ==
  LET startId == ann.nextId
  IN  selectSpanOn(
        addSpan(confirmMarker(placeMarker(ann, 0, marker.tierId, marker.videoId),
                              startId, startTypeId),
                NewSpan(startId, marker.id, marker.tierId, marker.videoId)),
        startId, marker.id)

\* handleEndMarkerPairing(hold, annStore, ...): the store it leaves
handleEndMarkerPairing(hold, ann) ==
  LET marker == FindMarker(ann.markers, hold.startMarkerId)
      tierSpans == {sp \in Range(ann.spans) :
                      sp.tierId = marker.tierId /\ sp.videoId = marker.videoId}
      spannedStartIds == {sp.startMarkerId : sp \in tierSpans}
      spannedEndIds == {sp.endMarkerId : sp \in tierSpans}
      \* positions of tierMarkers: the stable sort by time keeps list order in ties
      tierMarkers == {i \in 1..Len(ann.markers) :
                        /\ ann.markers[i].videoId = marker.videoId
                        /\ ann.markers[i].tierId = marker.tierId
                        /\ ann.markers[i].confirmed
                        /\ ann.markers[i].id # marker.id}
      unmatched == {i \in tierMarkers :
                      /\ ann.markers[i].time <= marker.time
                      /\ ann.markers[i].id \notin spannedStartIds
                      /\ ~isEndType(ann.markers[i].typeId)}
      unmatchedStart == ann.markers[LatestOf(ann.markers, unmatched, TRUE)]
      previousEnds == {i \in tierMarkers :
                         /\ ann.markers[i].time <= marker.time
                         /\ ann.markers[i].id \in spannedEndIds}
      prevEnd == ann.markers[LatestOf(ann.markers, previousEnds, FALSE)]
  IN  IF ~isEndType(hold.typeId) \/ marker.id = NoId THEN ann
      ELSE IF unmatched # {}
      THEN selectSpanOn(
             addSpan(ann, NewSpan(unmatchedStart.id, marker.id, marker.tierId, marker.videoId)),
             unmatchedStart.id, marker.id)
      ELSE IF previousEnds # {}
      THEN removeMarker(updateMarkerTime(ann, prevEnd.id, marker.time), marker.id)
      ELSE IF tierMarkers = {}
      THEN pairWithNewStart(ann, marker, findPairedStartType(hold.typeId))
      ELSE ann

\* finishHoldSpan leaving the selection alone
finishHoldSpanUnselected(ann, hold, endTimeMs, endMarker) ==
  LET endId == ann.nextId
      spanStartId == IF endMarker.time <= endTimeMs THEN hold.startMarkerId ELSE endId
      spanEndId == IF endMarker.time <= endTimeMs THEN endId ELSE hold.startMarkerId
  IN  addSpan(
        clearOverlappingSpans(
          confirmMarker(placeMarker(ann, endTimeMs, hold.tierId, hold.videoId),
                        endId, PairedEndType(hold.typeId)),
          Min(endMarker.time, endTimeMs), Max(endMarker.time, endTimeMs),
          hold.tierId, hold.videoId),
        NewSpan(spanStartId, spanEndId, hold.tierId, hold.videoId))

\* finalizeHold, a normal hold: an end marker of the paired type at the
\* release time, the spans in the way cleared, and the new span selected
finishHoldSpan(ann, hold, endTimeMs, endMarker) ==
  LET endId == ann.nextId
      spanStartId == IF endMarker.time <= endTimeMs THEN hold.startMarkerId ELSE endId
      spanEndId == IF endMarker.time <= endTimeMs THEN endId ELSE hold.startMarkerId
  IN  selectSpanOn(
        addSpan(
          clearOverlappingSpans(
            confirmMarker(placeMarker(ann, endTimeMs, hold.tierId, hold.videoId),
                          endId, PairedEndType(hold.typeId)),
            Min(endMarker.time, endTimeMs), Max(endMarker.time, endTimeMs),
            hold.tierId, hold.videoId),
          NewSpan(spanStartId, spanEndId, hold.tierId, hold.videoId)),
        spanStartId, spanEndId)

\* finalizeHold, the hold extends an existing span
finishExtension(ann, hold, endTimeMs, endMarker) ==
  selectSpan(IF endTimeMs > endMarker.time + 20
             THEN updateMarkerTime(ann, hold.startMarkerId, endTimeMs)
             ELSE ann,
             hold.existingSpanId)

\* finalizeHold: the store it leaves for the hold, at the video time endTimeMs
finalizedStore(ann, hold, endTimeMs) ==
  LET endMarker == FindMarker(ann.markers, hold.startMarkerId)
  IN  IF endMarker.id = NoId THEN ann
      ELSE IF hold.existingSpanId # NoId THEN finishExtension(ann, hold, endTimeMs, endMarker)
      ELSE IF Abs(endTimeMs - endMarker.time) < 20 THEN handleEndMarkerPairing(hold, ann)
      ELSE finishHoldSpan(ann, hold, endTimeMs, endMarker)

finalizeHoldKeepingActiveHold(w) ==
  IF w.holdRef = NoHold THEN w
  ELSE [w EXCEPT !.holdRef = NoHold,
                 !.ann = finalizedStore(@, w.holdRef, w.currentTime)]
finalizeHold(w) ==
  IF w.holdRef = NoHold THEN w
  ELSE [w EXCEPT !.holdRef = NoHold,
                 !.activeHold = NoActiveHold,
                 !.ann = finalizedStore(@, w.holdRef, w.currentTime)]

\* handleKeyUp
handleKeyUp(w, key) ==
  IF w.holdRef = NoHold \/ key # w.holdRef.key THEN w ELSE finalizeHold(w)

\* setPlaying without the subscription of the keyboard hook
setPlayingUnobserved(w, playing) ==
  IF playing THEN [w EXCEPT !.isPlaying = TRUE]
  ELSE [w EXCEPT !.isPlaying = FALSE]

\* useVideoStore isPlaying set to `playing` (setPlaying, togglePlay,
\* syncPlaying), with the subscription that finalizes a hold when playback
\* stops; play() is taken to succeed
setPlaying(w, playing) ==
  IF playing THEN [w EXCEPT !.isPlaying = TRUE]
  ELSE IF w.isPlaying THEN finalizeHold([w EXCEPT !.isPlaying = FALSE])
  ELSE w

\* setCurrentVideo finalizing the hold it finds
setCurrentVideoFinalizing(w, id) ==
  IF id = w.videoId THEN w
  ELSE [finalizeHold(w) EXCEPT !.videoId = id, !.currentTime = 0,
                               !.ann = cancelPendingMarker(@)]

\* useProjectStore.setCurrentVideo, with the subscription that drops a hold
\* and the VideoPlayer effects that follow a switch: the pending marker is
\* cancelled and the playhead goes back to 0
setCurrentVideo(w, id) ==
  IF id = w.videoId THEN w
  ELSE [w EXCEPT !.videoId = id, !.holdRef = NoHold, !.currentTime = 0,
                 !.activeHold = IF w.holdRef # NoHold THEN NoActiveHold ELSE @,
                 !.ann = cancelPendingMarker(@)]

\* useVideoPlayback: a frame of playback moves currentTime to `time`
setCurrentTime(w, time) ==
  [w EXCEPT !.currentTime = time, !.ann = syncPendingMarker(@, w.currentTime, time)]

\* handleKeyDown, scenario C: the selected span has an unconfirmed anchor
holdSelectedSpan(w, key, typeId, selSpan, spanStart, spanEnd) ==
  LET endTypeId == PairedEndType(typeId)
      confirmEnd(ann) == IF ~spanEnd.confirmed THEN confirmMarker(ann, spanEnd.id, endTypeId) ELSE ann
      confirmed == confirmEnd(IF ~spanStart.confirmed
                              THEN confirmMarker(w.ann, spanStart.id, typeId) ELSE w.ann)
  IN  [seek([w EXCEPT !.ann = confirmed], spanStart.time) EXCEPT
         !.isPlaying = TRUE,
         !.holdRef = HoldState(key, spanEnd.id, endTypeId, selSpan.tierId, w.videoId, selSpan.id),
         !.activeHold = ActiveHold(spanEnd.id, spanEnd.time, selSpan.tierId)]

\* handleKeyDown, scenario D with a span on the tier: the end marker of the
\* span that ends last comes to the playhead and is held
holdLatestSpan(w, key, typeId, latestSpan) ==
  [w EXCEPT !.ann = updateMarkerTime(@, latestSpan.endMarkerId, w.currentTime),
            !.holdRef = HoldState(key, latestSpan.endMarkerId, typeId, activeTierId,
                                  w.videoId, latestSpan.id),
            !.activeHold = ActiveHold(latestSpan.startMarkerId,
                                      IF HasMarker(w.ann.markers, latestSpan.startMarkerId)
                                      THEN FindMarker(w.ann.markers, latestSpan.startMarkerId).time
                                      ELSE 0,
                                      activeTierId)]

\* handleKeyDown, scenario D with no span on the tier: a start at 0, an end at
\* the playhead and a span between them, then the end is held
withSpanFromStart(ann, startId, endId, tierId, video) ==
  addSpan(ann, NewSpan(startId, endId, tierId, video))

holdNewSpanFromStart(w, key, typeId) ==
  LET startId == w.ann.nextId
      endId == startId + 1
      withSpan(ann) == [w EXCEPT
        !.ann = ann,
        !.holdRef = HoldState(key, endId, typeId, activeTierId, w.videoId,
                              SpanIdOn(ann.spans, startId, endId)),
        !.activeHold = ActiveHold(startId, 0, activeTierId)]
  IN  withSpan(withSpanFromStart(
        confirmMarker(
          placeMarker(
            confirmMarker(placeMarker(w.ann, 0, activeTierId, w.videoId),
                          startId, findPairedStartType(typeId)),
            w.currentTime, activeTierId, w.videoId),
          endId, typeId),
        startId, endId, activeTierId, w.videoId))

\* handleKeyDown, scenario B: the pending marker becomes the start of the hold
holdPendingMarker(w, key, typeId, pendingMarker) ==
  LET pendingId == w.ann.pendingMarkerId
      snapped == IF w.isPlaying /\ w.currentTime > pendingMarker.time
                 THEN updateMarkerTime(w.ann, pendingId, w.currentTime) ELSE w.ann
  IN  [w EXCEPT !.ann = confirmMarker(snapped, pendingId, typeId),
                !.isPlaying = TRUE,
                !.holdRef = HoldState(key, pendingId, typeId,
                                      IF pendingMarker.id # NoId THEN pendingMarker.tierId
                                      ELSE activeTierId,
                                      w.videoId, NoId),
                !.activeHold = ActiveHold(pendingId,
                                          IF w.isPlaying /\ w.currentTime > pendingMarker.time
                                          THEN w.currentTime
                                          ELSE IF pendingMarker.id # NoId THEN pendingMarker.time
                                          ELSE 0,
                                          IF pendingMarker.id # NoId THEN pendingMarker.tierId
                                          ELSE activeTierId)]

\* handleKeyDown, scenario A: a confirmed start marker at the playhead
holdNewMarker(w, key, typeId) ==
  LET startId == w.ann.nextId
  IN  [w EXCEPT !.ann = confirmMarker(placeMarker(@, w.currentTime, activeTierId, w.videoId),
                                      startId, typeId),
                !.holdRef = HoldState(key, startId, typeId, activeTierId, w.videoId, NoId),
                !.activeHold = ActiveHold(startId, w.currentTime, activeTierId)]

\* handleKeyDown for a marker type key pressed without modifiers (not a
\* repeat): hold-mode scenarios C, D, B and A, else the reclassification of
\* the selected marker
handleTypeKeyDown(w, key) ==
  LET ann == w.ann
      hasPending == ann.pendingMarkerId # NoId
      typeId == markerTypeOfKey(key)
      selSpan == FindSpan(ann.spans, ann.selectedSpanId)
      spanStart == FindMarker(ann.markers, selSpan.startMarkerId)
      spanEnd == FindMarker(ann.markers, selSpan.endMarkerId)
      tierSpans == {i \in 1..Len(ann.spans) :
                      /\ ann.spans[i].tierId = activeTierId
                      /\ ann.spans[i].videoId = w.videoId
                      /\ HasMarker(ann.markers, ann.spans[i].endMarkerId)}
      endTime(i) == FindMarker(ann.markers, ann.spans[i].endMarkerId).time
      latestSpan == ann.spans[CHOOSE i \in tierSpans : \A j \in tierSpans :
                                endTime(i) > endTime(j) \/ (endTime(i) = endTime(j) /\ i <= j)]
      selectedMarker == FindMarker(ann.markers, ann.selectedMarkerId)
  IN  IF /\ selSpan.id # NoId /\ spanStart.id # NoId /\ spanEnd.id # NoId
         /\ (~spanStart.confirmed \/ ~spanEnd.confirmed)
      THEN holdSelectedSpan(w, key, typeId, selSpan, spanStart, spanEnd)
      ELSE IF w.isPlaying /\ ~hasPending /\ isEndType(typeId)
      THEN IF tierSpans # {}
           THEN holdLatestSpan(w, key, typeId, latestSpan)
           ELSE holdNewSpanFromStart(w, key, typeId)
      ELSE IF hasPending
      THEN holdPendingMarker(w, key, typeId, FindMarker(ann.markers, ann.pendingMarkerId))
      ELSE IF w.isPlaying
      THEN holdNewMarker(w, key, typeId)
      ELSE IF /\ selectedMarker.id # NoId /\ selectedMarker.confirmed
              /\ typeId # selectedMarker.typeId
      THEN [w EXCEPT !.ann = reclassifyMarker(ann, selectedMarker.id, typeId)]
      ELSE w

\* handleKeyDown for Enter: a pending marker at the current time, paused
handleEnterKeyDown(w) ==
  [setPlaying([w EXCEPT !.ann = cancelPendingMarker(@)], FALSE) EXCEPT
     !.ann = placeMarker(@, w.currentTime, activeTierId, w.videoId)]

\* handleKeyDown for Space: playing, pause and place a pending marker;
\* paused, play
handleSpaceKeyDown(w) ==
  IF w.isPlaying
  THEN [setPlaying(w, FALSE) EXCEPT
          !.ann = placeMarker(IF w.ann.pendingMarkerId # NoId THEN cancelPendingMarker(@) ELSE @,
                              w.currentTime, activeTierId, w.videoId)]
  ELSE setPlaying(w, TRUE)

\* ------------------------------------------------------------------ toasts
\* useUiStore toasts: the list of the toasts on screen.  A toast is a record
\* with `undos`, the number of temporal undo() calls its Undo action runs
\* (0 for a toast without an action), and with `kind`, which stands for its
\* message.  `before` and `after` are history fields: markers and spans as
\* the handler that raised the toast found them, and the store as it left
\* it.
NoToasts == <<>>
Toast(kind, undos, before, after) ==
  [kind |-> kind, undos |-> undos, before |-> before, after |-> after]
addToast(ts, toast) == Append(ts, toast)
\* removeToast, and the timer addToast sets: the toast at position i goes
removeToast(ts, i) == [j \in 1..(Len(ts) - 1) |-> IF j < i THEN ts[j] ELSE ts[j + 1]]

\* the callback of a toast's action: temporal.undo(), `undos` times
RECURSIVE undoTimes(_, _)
undoTimes(s, n) == IF n = 0 THEN s ELSE undoTimes(undo(s), n - 1)

\* handleKeyDown for Delete and Backspace without Ctrl: the selected span
\* goes with both of its anchor markers, else the selected marker goes
DeleteKeys == {"Delete", "Backspace"}
removeMarkerIfSet(s, id) == IF id # NoId THEN removeMarker(s, id) ELSE s
handleDeleteKeyDown(w) ==
  LET ann == w.ann
      span == FindSpan(ann.spans, ann.selectedSpanId)
  IN  IF ann.selectedSpanId # NoId
      THEN IF span.id # NoId
           THEN [w EXCEPT !.ann = removeMarkerIfSet(
                                    removeMarkerIfSet(removeSpan(ann, ann.selectedSpanId),
                                                      span.startMarkerId),
                                    span.endMarkerId)]
           ELSE w
      ELSE IF ann.selectedMarkerId # NoId
      THEN [w EXCEPT !.ann = removeMarker(ann, ann.selectedMarkerId)]
      ELSE w

\* the toasts handleKeyDown for Delete leaves: one with an Undo of three
\* steps for a span, one with an Undo of one step for a marker
deleteKeyToasts(w, ts) ==
  LET ann == w.ann
      after == handleDeleteKeyDown(w).ann
  IN  IF ann.selectedSpanId # NoId
      THEN IF HasSpan(ann.spans, ann.selectedSpanId)
           THEN addToast(ts, Toast("Deleted span + markers", 3, partialize(ann), after))
           ELSE ts
      ELSE IF ann.selectedMarkerId # NoId /\ HasMarker(ann.markers, ann.selectedMarkerId)
      THEN addToast(ts, Toast("Deleted marker", 1, partialize(ann), after))
      ELSE ts

handleKeyDown(w, key) ==
  IF key = "Enter" THEN handleEnterKeyDown(w)
  ELSE IF key = " " THEN handleSpaceKeyDown(w)
  ELSE IF key \in DeleteKeys THEN handleDeleteKeyDown(w)
  ELSE handleTypeKeyDown(w, key)

\* the toasts handlePointerUp leaves: 'Spans merged', with an Undo of one
\* step, when the release of a resize drag in a merge zone merged two spans
pointerUpToasts(w, ts) ==
  LET d == w.dragRef
  IN  IF /\ ~w.scrubRef
         /\ d.mode = "span-resize"
         /\ d.inMergeZone /\ d.mergeTargetSpanId # NoId /\ d.spanId # NoId
         /\ mergeSpansReturns(commitResizeNoMerge(w.ann, d), d.spanId, d.mergeTargetSpanId)
      THEN addToast(ts, Toast("Spans merged", 1, partialize(w.ann), handlePointerUp(w).ann))
      ELSE ts

\* the keydown and keyup listeners of the window for an event whose target is
\* a text field (focus.inputFocused) or that finds a dialog open
\* (focus.activeDialog): handleKeyDown returns at once, handleKeyUp has no
\* such test
NoFocus == [inputFocused |-> FALSE, activeDialog |-> FALSE]
onKeyDown(w, focus, key) ==
  IF focus.inputFocused \/ focus.activeDialog THEN w ELSE handleKeyDown(w, key)

onKeyUp(w, focus, key) == handleKeyUp(w, key)

\* --------------------------------------------------------------- render loop
\* The Timeline's animation loop and the scroll interpolation of draw.  A
\* view is a record of scrollLeftRef, targetScrollLeftRef, dirtyRef and
\* canvasSizeRef; lengths are fixed-point numbers, PxUnits to the pixel, and
\* a product with the lerp factor is cut to that grid.  contentWidth is
\* duration * zoom.
PxUnits == 100
HalfPx == PxUnits \div 2
SmoothSpeedPercent == 15
MountedView ==
  [scrollLeft |-> 0, targetScrollLeft |-> 0, dirty |-> TRUE, w |-> 0, h |-> 0]

\* diff * AUTO_SCROLL_SMOOTH_SPEED
lerpStepStuck(diff) == 0
lerpStep(diff) ==
  IF diff >= 0 THEN (diff * SmoothSpeedPercent) \div 100
  ELSE -(((-diff) * SmoothSpeedPercent) \div 100)

\* Math.abs(targetScrollLeftRef.current - scrollLeftRef.current) > 0.5
smoothing(v) == Abs(v.targetScrollLeft - v.scrollLeft) > HalfPx

\* draw reaches the canvas: it has not returned for a canvas without size
paints(v) == v.w # 0 /\ v.h # 0

\* draw: the interpolation step, then the clamping of both positions
draw(v, contentWidth) ==
  IF ~paints(v) THEN v
  ELSE LET diff == v.targetScrollLeft - v.scrollLeft
           maxScroll == Max(0, contentWidth - v.w)
           scrolled == IF Abs(diff) > HalfPx THEN v.scrollLeft + lerpStep(diff)
                       ELSE v.targetScrollLeft
       IN  [v EXCEPT !.scrollLeft = clamp(scrolled, 0, maxScroll),
                     !.targetScrollLeft = clamp(@, 0, maxScroll),
                     !.dirty = IF Abs(diff) > HalfPx THEN TRUE ELSE @]

\* whether one run of the loop calls draw
loopDraws(v, playing, dragging, scrubbing) ==
  v.dirty \/ playing \/ smoothing(v) \/ dragging \/ scrubbing

\* one animation frame
loop(v, contentWidth, playing, dragging, scrubbing) ==
  IF loopDraws(v, playing, dragging, scrubbing)
  THEN [draw(v, contentWidth) EXCEPT !.dirty = FALSE]
  ELSE v

\* the store subscriptions and the handlers that set dirtyRef
markDirty(v) == [v EXCEPT !.dirty = TRUE]

\* the ResizeObserver callback for a content rectangle of w by h
resizeCanvas(v, w, h) ==
  IF w # v.w \/ h # v.h THEN [v EXCEPT !.w = w, !.h = h, !.dirty = TRUE] ELSE v

\* handlePointerDown on the minimap at the place of `left`, the scroll
\* position that centres the click: Math.max(0, clickTimeSec * zoom - w / 2)
scrollToMinimapClick(v, left) == [v EXCEPT !.targetScrollLeft = Max(0, left), !.dirty = TRUE]

\* ------------------------------------------------------------------ settings
\* The tier registry of useSettingsStore (stores/settings-store): a record
\* with tiers (a list of [id, visible, locked]; name, colour and marker types
\* are left out), activeTierId (NoId for null) and the next id generateId
\* hands out.  The default tier has id 1.
defaultTier == [id |-> 1, visible |-> TRUE, locked |-> FALSE]
DefaultSettings == [tiers |-> <<defaultTier>>, activeTierId |-> 1, nextId |-> 2]

firstEligibleTierId(tiers) ==
  LET I == {i \in 1..Len(tiers) : tiers[i].visible /\ ~tiers[i].locked}
  IN  IF I = {} THEN NoId ELSE tiers[CHOOSE i \in I : \A j \in I : i <= j].id

addTier(st, tier) ==
  [st EXCEPT !.tiers = Append(@, [id |-> st.nextId, visible |-> tier.visible, locked |-> tier.locked]),
             !.activeTierId = st.nextId,
             !.nextId = @ + 1]

removeTier(st, id) ==
  [st EXCEPT !.tiers = SelectSeq(@, LAMBDA t : t.id # id),
             !.activeTierId = IF @ = id
                              THEN firstEligibleTierId(SelectSeq(st.tiers, LAMBDA t : t.id # id))
                              ELSE @]

\* `update` gives visible and locked anew (a Partial<Tier> of these fields)
updatedTiers(tiers, id, update) ==
  [i \in 1..Len(tiers) |->
     IF tiers[i].id = id THEN [tiers[i] EXCEPT !.visible = update.visible, !.locked = update.locked]
     ELSE tiers[i]]

updateTier(st, id, update) ==
  [st EXCEPT !.tiers = updatedTiers(@, id, update),
             !.activeTierId =
               IF @ = id /\ (\E i \in 1..Len(st.tiers) : st.tiers[i].id = id)
                         /\ (~update.visible \/ update.locked)
               THEN firstEligibleTierId(updatedTiers(st.tiers, id, update))
               ELSE @]

setTiers(st, tiers) == [st EXCEPT !.tiers = tiers, !.activeTierId = firstEligibleTierId(tiers)]

reorderTiers(st, tiers) == [st EXCEPT !.tiers = tiers]

setActiveTier(st, id) == [st EXCEPT !.activeTierId = id]

cycleActiveTier(st) ==
  LET eligible == SelectSeq(st.tiers, LAMBDA t : t.visible /\ ~t.locked)
      I == {i \in 1..Len(eligible) : eligible[i].id = st.activeTierId}
      curIdx == IF I = {} THEN -1 ELSE (CHOOSE i \in I : \A j \in I : i <= j) - 1
  IN  IF Len(eligible) = 0 THEN st
      ELSE [st EXCEPT !.activeTierId = eligible[((curIdx + 1) % Len(eligible)) + 1].id]

\* ------------------------------------------------------------------ player
\* The effects of components/video/VideoPlayer over the videos of the project
\* store.  A record p holds objectUrl (per video, 0: undefined), the number
\* of URLs URL.createObjectURL has made, the lazy file reads (getFile
\* promises: the video they were started for, the `cancelled` flag of their
\* effect, whether they have settled), the read the last run of the lazy
\* effect started (0: none, its cleanup cancels it), the dependencies that
\* run saw, prevVideoIdRef, and the src of the video element.  Every video
\* has a file handle.  `stale` notes that the current video changed while
\* the read was in flight.
NoPlayer ==
  [objectUrl |-> [v \in Videos |-> 0], urls |-> 0, reads |-> <<>>, effectRead |-> 0,
   deps |-> <<"", 0>>, prevVideoIdRef |-> "", src |-> 0]

\* the lazy URL effect: the cleanup of its last run, then the run for the
\* current video `cur`
cancelled(p) ==
  IF p.effectRead = 0 THEN p ELSE [p EXCEPT !.reads[p.effectRead].cancelled = TRUE]

startedRead(p, cur) ==
  IF p.objectUrl[cur] # 0 THEN [p EXCEPT !.effectRead = 0, !.deps = <<cur, p.objectUrl[cur]>>]
  ELSE [p EXCEPT !.reads = Append(@, [videoId |-> cur, cancelled |-> FALSE, settled |-> FALSE,
                                      stale |-> FALSE]),
                 !.effectRead = Len(p.reads) + 1,
                 !.deps = <<cur, 0>>]

lazyUrlEffect(p, cur) ==
  IF p.deps = <<cur, p.objectUrl[cur]>> THEN p ELSE startedRead(cancelled(p), cur)

\* the effect that revokes the previous video's object URL after a switch
revokeEffect(p, cur) ==
  IF p.prevVideoIdRef = "" \/ p.prevVideoIdRef = cur THEN [p EXCEPT !.prevVideoIdRef = cur]
  ELSE [p EXCEPT !.objectUrl[p.prevVideoIdRef] = 0, !.prevVideoIdRef = cur]

\* the effect that loads the current video's object URL into the element
sourceEffect(p, cur) ==
  IF p.objectUrl[cur] # 0 THEN [p EXCEPT !.src = p.objectUrl[cur]] ELSE p

playerEffects(p, cur) == sourceEffect(revokeEffect(lazyUrlEffect(p, cur), cur), cur)

\* the callback of getFile().then for read i, the current video being `cur`
fileReadUnguarded(p, cur, i) ==
  [p EXCEPT !.reads[i].settled = TRUE,
            !.objectUrl[p.reads[i].videoId] = p.urls + 1,
            !.urls = @ + 1]

fileRead(p, cur, i) ==
  IF \/ p.reads[i].cancelled
     \/ cur # p.reads[i].videoId
     \/ p.objectUrl[p.reads[i].videoId] # 0
  THEN [p EXCEPT !.reads[i].settled = TRUE]
  ELSE [p EXCEPT !.reads[i].settled = TRUE,
                 !.objectUrl[p.reads[i].videoId] = p.urls + 1,
                 !.urls = @ + 1]

\* ------------------------------------------------------------------ playback
\* The time update effect of useVideoPlayback on a mounted video element.  A
\* record f holds the element's paused attribute, the media events queued for
\* dispatch, the handles of the animation frame callbacks that are scheduled,
\* animFrameRef (0: none) and the number of handles handed out.
NoPlayback == [paused |-> TRUE, events |-> <<>>, scheduled |-> {}, animFrameRef |-> 0, handles |-> 0]

\* animFrameRef.current = requestAnimationFrame(update)
requestFrame(f) ==
  [f EXCEPT !.scheduled = @ \cup {f.handles + 1}, !.animFrameRef = f.handles + 1,
            !.handles = @ + 1]

\* cancelAnimationFrame(animFrameRef.current)
cancelFrame(f) == [f EXCEPT !.scheduled = @ \ {f.animFrameRef}]

startLoopStacking(f) == requestFrame(f)

startLoop(f) == requestFrame(cancelFrame(f))

stopLoop(f) == [cancelFrame(f) EXCEPT !.animFrameRef = 0]

\* the scheduled callback `update` with handle h runs: it asks for the next frame
updateTime(f, h) == requestFrame([f EXCEPT !.scheduled = @ \ {h}])

\* the listener of a media event (play, pause, ended, emptied)
onMediaEvent(f, event) == IF event = "play" THEN startLoop(f) ELSE stopLoop(f)

\* the effect runs on mount and after a change of its dependencies
mountLoop(f) == IF ~f.paused THEN startLoop(f) ELSE f

\* the effect's cleanup followed by its next run, on the same element
remountLoop(f) == mountLoop(stopLoop(f))

\* the effect's cleanup followed by its run on a new element, which is paused
\* and has no events queued
replaceElement(f) == mountLoop([stopLoop(f) EXCEPT !.paused = TRUE, !.events = <<>>])

\* ------------------------------------------------------------------ import
\* The effect of hooks/useEafImport.  Every video has an EAF file whose dcal-
\* tiers hold one span (see importDcalAnnotationsFromEaf in the EAF section
\* for the parsing).  A record m holds the reads in flight (the video the
\* effect ran for, the `cancelled` flag of that run, whether the read has
\* settled), the read of the effect's last run and the dependencies that run
\* saw: the current video and the version of the project store's video list.
NoImporter == [reads |-> <<>>, effectRead |-> 0, deps |-> <<"", 0>>, videos |-> 0]

\* what importDcalAnnotationsFromEaf returns for the EAF of `video`: two
\* confirmed markers and the span between them, with fresh ids
dcalImport(ann, video) ==
  [markers |-> <<[id |-> ann.nextId, time |-> 500, typeId |-> "sign-start", tierId |-> "t1",
                  videoId |-> video, confirmed |-> TRUE],
                 [id |-> ann.nextId + 1, time |-> 1500, typeId |-> "sign-end", tierId |-> "t1",
                  videoId |-> video, confirmed |-> TRUE]>>,
   spans |-> <<[id |-> ann.nextId + 2, startMarkerId |-> ann.nextId,
                endMarkerId |-> ann.nextId + 1, tierId |-> "t1", videoId |-> video,
                gloss |-> "G"]>>]

\* annStore.setMarkers([...annStore.markers, ...]) and setSpans([...annStore.spans, ...])
\* on the snapshot `ann`
addImported(ann, imp) ==
  IF Len(imp.markers) > 0
  THEN setSpans(setMarkers([ann EXCEPT !.nextId = @ + Len(imp.markers) + Len(imp.spans)],
                           ann.markers \o imp.markers),
                ann.spans \o imp.spans)
  ELSE ann

importEditableUnchecked(ann, video) == addImported(ann, dcalImport(ann, video))

\* the import of the dcal- tiers for `video` once its EAF has been read
importEditable(ann, video) ==
  IF \A i \in 1..Len(ann.markers) : ann.markers[i].videoId # video
  THEN addImported(ann, dcalImport(ann, video))
  ELSE ann

\* the body of the async function after its awaits, for read i
eafRead(ann, m, i) ==
  IF m.reads[i].cancelled THEN ann ELSE importEditable(ann, m.reads[i].videoId)

\* the effect: the cleanup of its last run, then its run for the current video
importEffect(m, cur) ==
  IF m.deps = <<cur, m.videos>> THEN m
  ELSE [m EXCEPT !.reads = Append(IF m.effectRead = 0 THEN @
                                  ELSE [@ EXCEPT ![m.effectRead].cancelled = TRUE],
                                  [videoId |-> cur, cancelled |-> FALSE, settled |-> FALSE]),
                 !.effectRead = Len(m.reads) + 1,
                 !.deps = <<cur, m.videos>>]

\* ------------------------------------------------------------------ export
\* The write step of ExportDialog.doExport.  A file name is <<base, k>>: k = 0
\* stands for base.ext, 1 for base_dcal.ext, k in 2..99 for base_dcal_k.ext
\* and a greater k for base_dcal_<Date.now()>.ext.  A directory is a function
\* from the names of its files to their contents.
NoFiles == [name \in {} |-> 0]
SuffixLimit == 100

fileExists(dir, name) == name \in DOMAIN dir

\* findSafeFilename(dirHandle, desiredName), Date.now() being `now`
findSafeFilename(dir, base, now) ==
  IF ~fileExists(dir, <<base, 0>>) THEN <<base, 0>>
  ELSE IF ~fileExists(dir, <<base, 1>>) THEN <<base, 1>>
  ELSE IF \E i \in 2..(SuffixLimit - 1) : ~fileExists(dir, <<base, i>>)
    THEN <<base, CHOOSE i \in 2..(SuffixLimit - 1) :
                   /\ ~fileExists(dir, <<base, i>>)
                   /\ \A j \in 2..(i - 1) : fileExists(dir, <<base, j>>)>>
  ELSE <<base, now>>

\* writeFile (getFileHandle with create, createWritable, write, close) and the
\* server's fs.writeFileSync behind writeRemoteFile: both create or replace
writeFile(dir, name, content) ==
  [n \in DOMAIN dir \cup {name} |-> IF n = name THEN content ELSE dir[n]]

\* the name doExport writes for a video with base name `base`
exportedName(dir, mode, base, now) ==
  IF mode = "local" THEN findSafeFilename(dir, base, now) ELSE <<base, 0>>

\* ------------------------------------------------------------------ elan
\* generateEaf and importDcalAnnotationsFromEaf.  A string is a sequence of
\* characters; ESC stands for U+001B and TAB for U+0009.  The marker times
\* given to generateEaf are in tenths of a millisecond (a time taken from the
\* video is not a whole number of milliseconds); TIME_VALUE and the imported
\* times are whole milliseconds.  Ids are pairs <<prefix, n>>, a time slot
\* id k stands for "ts<k>" and 0 for a slot that is not set.
ESC == "ESC"
TAB == "TAB"
Amp == <<"&", "a", "m", "p", ";">>
Lt == <<"&", "l", "t", ";">>
Gt == <<"&", "g", "t", ";">>
Quot == <<"&", "q", "u", "o", "t", ";">>
Apos == <<"&", "a", "p", "o", "s", ";">>

RECURSIVE replaceAll(_, _, _)
replaceAll(str, c, by) ==
  IF str = <<>> THEN <<>>
  ELSE (IF Head(str) = c THEN by ELSE <<Head(str)>>) \o replaceAll(Tail(str), c, by)

escapeXml(str) ==
  replaceAll(replaceAll(replaceAll(replaceAll(replaceAll(str, "&", Amp), "<", Lt), ">", Gt),
                        "\"", Quot), "'", Apos)

startsWith(str, prefix) ==
  Len(str) >= Len(prefix) /\ SubSeq(str, 1, Len(prefix)) = prefix
slice(str, n) == SubSeq(str, n + 1, Len(str))
includes(str, part) ==
  \E i \in 1..(Len(str) + 1) : startsWith(slice(str, i - 1), part)
toLowerCase(str) ==
  [i \in 1..Len(str) |-> CASE str[i] = "S" -> "s" [] str[i] = "E" -> "e" [] OTHER -> str[i]]

\* the XML parser behind parseXml (DOMParser, text/xml): the predefined
\* entities, the characters XML 1.0 forbids, attribute-value normalization
XmlEntities ==
  {[text |-> Amp, char |-> "&"], [text |-> Lt, char |-> "<"], [text |-> Gt, char |-> ">"],
   [text |-> Quot, char |-> "\""], [text |-> Apos, char |-> "'"]}
entityAt(str) == CHOOSE e \in XmlEntities : startsWith(str, e.text)

RECURSIVE wellFormed(_, _)
wellFormed(str, illegal) ==
  IF str = <<>> THEN TRUE
  ELSE IF Head(str) \in illegal THEN FALSE
  ELSE IF Head(str) = "&"
    THEN /\ \E e \in XmlEntities : startsWith(str, e.text)
         /\ wellFormed(slice(str, Len(entityAt(str).text)), illegal)
  ELSE wellFormed(Tail(str), illegal)

RECURSIVE unescaped(_)
unescaped(str) ==
  IF str = <<>> THEN <<>>
  ELSE IF Head(str) = "&"
    THEN <<entityAt(str).char>> \o unescaped(slice(str, Len(entityAt(str).text)))
  ELSE <<Head(str)>> \o unescaped(Tail(str))

textContent(str) == unescaped(str)
getAttribute(str) == unescaped(replaceAll(str, TAB, <<" ">>))
wellFormedText(str) == wellFormed(str, {"<", ESC})
wellFormedAttribute(str) == wellFormed(str, {"<", "\"", ESC})

\* Math.round of a time in tenths of a millisecond, `${n}` and parseInt(_, 10)
round(tenths) == (tenths + 5) \div 10
RECURSIVE toDigits(_)
toDigits(n) == IF n < 10 THEN <<n>> ELSE toDigits(n \div 10) \o <<n % 10>>
RECURSIVE parseInt(_)
parseInt(digits) ==
  IF digits = <<>> THEN 0
  ELSE 10 * parseInt(SubSeq(digits, 1, Len(digits) - 1)) + digits[Len(digits)]

\* Array.prototype.sort((a, b) => a.time - b.time), which is stable
insertByTime(sorted, x) ==
  SelectSeq(sorted, LAMBDA y : y.time <= x.time) \o <<x>>
    \o SelectSeq(sorted, LAMBDA y : y.time > x.time)
RECURSIVE sortedByTime(_)
sortedByTime(items) ==
  IF items = <<>> THEN <<>>
  ELSE insertByTime(sortedByTime(SubSeq(items, 1, Len(items) - 1)), items[Len(items)])

confirmedMarkers(markers) == sortedByTime(SelectSeq(markers, LAMBDA m : m.confirmed))

\* markerToSlot after the first loop; the second loop (eaf-writer.ts:35-52)
\* finds nothing to add, every confirmed marker having its slot already
markerToSlot(cm, id) ==
  IF \E i \in 1..Len(cm) : cm[i].id = id
    THEN CHOOSE i \in 1..Len(cm) : cm[i].id = id /\ \A j \in (i + 1)..Len(cm) : cm[j].id # id
  ELSE 0

markerSlots(cm) == [i \in 1..Len(cm) |-> [id |-> i, time |-> round(cm[i].time)]]

spannedMarkerIds(spans) ==
  {spans[i].startMarkerId : i \in 1..Len(spans)} \cup {spans[i].endMarkerId : i \in 1..Len(spans)}

exportedSpans(o, cm, tier) ==
  SelectSeq(o.spans, LAMBDA sp : /\ sp.tierId = tier.id
                                 /\ markerToSlot(cm, sp.startMarkerId) # 0
                                 /\ markerToSlot(cm, sp.endMarkerId) # 0)

standaloneMarkers(o, cm, tier) ==
  SelectSeq(cm, LAMBDA m : m.tierId = tier.id /\ m.id \notin spannedMarkerIds(o.spans))

typeLabel(markerTypes, typeId) ==
  IF \E i \in 1..Len(markerTypes) : markerTypes[i].id = typeId
    THEN markerTypes[CHOOSE i \in 1..Len(markerTypes) :
                       /\ markerTypes[i].id = typeId
                       /\ \A j \in 1..(i - 1) : markerTypes[j].id # typeId].name
  ELSE <<>>

\* the <TIER> element of one tier; ts and a are tsCounter and annotCounter
tierXml(o, cm, tier, ts, a) ==
  [id |-> <<"d", "c", "a", "l", "-">> \o escapeXml(tier.name),
   participant |-> escapeXml(o.participant),
   annotations |->
     [i \in 1..Len(exportedSpans(o, cm, tier)) |->
        [id |-> a + i - 1,
         ref1 |-> markerToSlot(cm, exportedSpans(o, cm, tier)[i].startMarkerId),
         ref2 |-> markerToSlot(cm, exportedSpans(o, cm, tier)[i].endMarkerId),
         value |-> escapeXml(exportedSpans(o, cm, tier)[i].gloss)]]
     \o [j \in 1..Len(standaloneMarkers(o, cm, tier)) |->
        [id |-> a + Len(exportedSpans(o, cm, tier)) + j - 1,
         ref1 |-> markerToSlot(cm, standaloneMarkers(o, cm, tier)[j].id),
         ref2 |-> ts + j - 1,
         value |-> escapeXml(typeLabel(o.markerTypes, standaloneMarkers(o, cm, tier)[j].typeId))]]]

pointSlots(o, cm, tier, ts) ==
  [j \in 1..Len(standaloneMarkers(o, cm, tier)) |->
     [id |-> ts + j - 1, time |-> round(standaloneMarkers(o, cm, tier)[j].time) + 1]]

\* tiers.map(...): the elements of tiers i.. and the time slots they add
RECURSIVE tiersXml(_, _, _, _, _)
tiersXml(o, cm, i, ts, a) ==
  IF i > Len(o.tiers) THEN [tiers |-> <<>>, slots |-> <<>>]
  ELSE [tiers |-> <<tierXml(o, cm, o.tiers[i], ts, a)>>
                    \o tiersXml(o, cm, i + 1, ts + Len(standaloneMarkers(o, cm, o.tiers[i])),
                                a + Len(exportedSpans(o, cm, o.tiers[i]))
                                  + Len(standaloneMarkers(o, cm, o.tiers[i]))).tiers,
        slots |-> pointSlots(o, cm, o.tiers[i], ts)
                    \o tiersXml(o, cm, i + 1, ts + Len(standaloneMarkers(o, cm, o.tiers[i])),
                                a + Len(exportedSpans(o, cm, o.tiers[i]))
                                  + Len(standaloneMarkers(o, cm, o.tiers[i]))).slots]

eafDocument(o, cm, body) ==
  [mediaUrl |-> <<".", "/">> \o escapeXml(o.mediaFile),
   author |-> escapeXml(o.author),
   timeSlots |-> [k \in 1..Len(sortedByTime(markerSlots(cm) \o body.slots)) |->
                    [id |-> sortedByTime(markerSlots(cm) \o body.slots)[k].id,
                     value |-> toDigits(sortedByTime(markerSlots(cm) \o body.slots)[k].time)]],
   tiers |-> body.tiers]

generateEafFrom(o, cm) ==
  eafDocument(o, cm, tiersXml(o, cm, 1, Len(cm) + 1, 1))

generateEaf(o) == generateEafFrom(o, confirmedMarkers(o.markers))

\* parseXml: DOMParser reports a document that is not well-formed as a
\* parsererror element, and parseXml throws
parses(xml) ==
  /\ wellFormedAttribute(xml.mediaUrl)
  /\ wellFormedAttribute(xml.author)
  /\ \A i \in 1..Len(xml.tiers) :
       /\ wellFormedAttribute(xml.tiers[i].id)
       /\ wellFormedAttribute(xml.tiers[i].participant)
       /\ \A k \in 1..Len(xml.tiers[i].annotations) :
            wellFormedText(xml.tiers[i].annotations[k].value)

parseEaf(xml) ==
  [timeSlots |-> [k \in 1..Len(xml.timeSlots) |->
                    [id |-> xml.timeSlots[k].id, time |-> parseInt(xml.timeSlots[k].value)]],
   tiers |-> [i \in 1..Len(xml.tiers) |->
                [id |-> getAttribute(xml.tiers[i].id),
                 annotations |->
                   [k \in 1..Len(xml.tiers[i].annotations) |->
                      [startSlotRef |-> xml.tiers[i].annotations[k].ref1,
                       endSlotRef |-> xml.tiers[i].annotations[k].ref2,
                       value |-> textContent(xml.tiers[i].annotations[k].value)]]]]]

\* timeSlotMap.get(ref) ?? 0
timeSlotMap(doc, ref) ==
  IF \E k \in 1..Len(doc.timeSlots) : doc.timeSlots[k].id = ref
    THEN doc.timeSlots[CHOOSE k \in 1..Len(doc.timeSlots) :
                         /\ doc.timeSlots[k].id = ref
                         /\ \A j \in (k + 1)..Len(doc.timeSlots) : doc.timeSlots[j].id # ref].time
  ELSE 0

\* Array.prototype.find
find(items, passing(_)) ==
  IF \E i \in 1..Len(items) : passing(items[i])
    THEN <<items[CHOOSE i \in 1..Len(items) :
                   passing(items[i]) /\ \A j \in 1..(i - 1) : ~passing(items[j])]>>
  ELSE <<>>

\* tierNameToId.get(tierName): the last existing tier of that name, else a
\* tier this import has created (r.newTiers), else nothing
tierNameToId(existingTiers, r, name) ==
  IF find(r.newTiers, LAMBDA t : t.name = name) # <<>>
    THEN find(r.newTiers, LAMBDA t : t.name = name)
  ELSE IF \E i \in 1..Len(existingTiers) : existingTiers[i].name = name
    THEN <<existingTiers[CHOOSE i \in 1..Len(existingTiers) :
             /\ existingTiers[i].name = name
             /\ \A j \in (i + 1)..Len(existingTiers) : existingTiers[j].name # name]>>
  ELSE <<>>

typeIds(markerTypes) == [i \in 1..Len(markerTypes) |-> markerTypes[i].id]

\* tierTypes of the tier the annotations go to
tierTypes(existingTiers, markerTypes, tierId) ==
  LET own == find(existingTiers, LAMBDA t : t.id = tierId)
      ids == IF own # <<>> THEN own[1].markerTypes ELSE typeIds(markerTypes)
  IN  [i \in 1..Len(SelectSeq(ids, LAMBDA id : find(markerTypes, LAMBDA mt : mt.id = id) # <<>>)) |->
         find(markerTypes,
              LAMBDA mt : mt.id = SelectSeq(ids, LAMBDA id :
                            find(markerTypes, LAMBDA m2 : m2.id = id) # <<>>)[i])[1]]

typeNamed(types, part) ==
  IF find(types, LAMBDA mt : includes(toLowerCase(mt.name), part)) # <<>>
    THEN find(types, LAMBDA mt : includes(toLowerCase(mt.name), part))[1].id
  ELSE IF types # <<>> THEN types[1].id
  ELSE ""

matchedType(markerTypes, types, value) ==
  IF \E i \in 1..Len(markerTypes) : toLowerCase(markerTypes[i].name) = toLowerCase(value)
    THEN markerTypes[CHOOSE i \in 1..Len(markerTypes) :
           /\ toLowerCase(markerTypes[i].name) = toLowerCase(value)
           /\ \A j \in (i + 1)..Len(markerTypes) :
                toLowerCase(markerTypes[j].name) # toLowerCase(value)].id
  ELSE IF types # <<>> THEN types[1].id
  ELSE ""

\* one annotation of a dcal- tier, added to the result r (r.n is the number
\* of ids generateId has given out)
importedAnnotation(r, doc, annot, tierId, video, markerTypes, types) ==
  IF timeSlotMap(doc, annot.endSlotRef) - timeSlotMap(doc, annot.startSlotRef) <= 1
    THEN [r EXCEPT !.markers = @ \o <<[id |-> <<"m", r.n + 1>>,
                                       time |-> timeSlotMap(doc, annot.startSlotRef),
                                       typeId |-> matchedType(markerTypes, types, annot.value),
                                       tierId |-> tierId, videoId |-> video,
                                       confirmed |-> matchedType(markerTypes, types, annot.value) # ""]>>,
                     !.n = @ + 1]
  ELSE [r EXCEPT !.markers = @ \o <<[id |-> <<"m", r.n + 1>>,
                                     time |-> timeSlotMap(doc, annot.startSlotRef),
                                     typeId |-> typeNamed(types, <<"s", "t", "a", "r", "t">>),
                                     tierId |-> tierId, videoId |-> video, confirmed |-> TRUE],
                                    [id |-> <<"m", r.n + 2>>,
                                     time |-> timeSlotMap(doc, annot.endSlotRef),
                                     typeId |-> typeNamed(types, <<"e", "n", "d">>),
                                     tierId |-> tierId, videoId |-> video, confirmed |-> TRUE]>>,
                   !.spans = @ \o <<[id |-> <<"sp", r.n + 3>>, startMarkerId |-> <<"m", r.n + 1>>,
                                     endMarkerId |-> <<"m", r.n + 2>>, tierId |-> tierId,
                                     videoId |-> video, gloss |-> annot.value]>>,
                   !.n = @ + 3]

RECURSIVE importedAnnotations(_, _, _, _, _, _, _, _)
importedAnnotations(r, doc, annots, k, tierId, video, markerTypes, types) ==
  IF k > Len(annots) THEN r
  ELSE importedAnnotations(importedAnnotation(r, doc, annots[k], tierId, video, markerTypes, types),
                           doc, annots, k + 1, tierId, video, markerTypes, types)

\* the result with the tier of that name created if no tier has it
withTier(r, existingTiers, markerTypes, name) ==
  IF tierNameToId(existingTiers, r, name) # <<>> THEN r
  ELSE [r EXCEPT !.newTiers = @ \o <<[id |-> <<"tier", r.n + 1>>, name |-> name,
                                      markerTypes |-> typeIds(markerTypes),
                                      visible |-> TRUE, locked |-> FALSE]>>,
                 !.n = @ + 1]

importedTier(r, doc, eafTier, video, existingTiers, markerTypes, tierId) ==
  importedAnnotations(r, doc, eafTier.annotations, 1, tierId, video, markerTypes,
                      tierTypes(existingTiers, markerTypes, tierId))

RECURSIVE importedTiers(_, _, _, _, _, _)
importedTiers(r, doc, i, video, existingTiers, markerTypes) ==
  IF i > Len(doc.tiers) THEN r
  ELSE IF ~startsWith(doc.tiers[i].id, <<"d", "c", "a", "l", "-">>)
    THEN importedTiers(r, doc, i + 1, video, existingTiers, markerTypes)
  ELSE importedTiers(
         importedTier(withTier(r, existingTiers, markerTypes, slice(doc.tiers[i].id, 5)),
                      doc, doc.tiers[i], video, existingTiers, markerTypes,
                      tierNameToId(existingTiers,
                                   withTier(r, existingTiers, markerTypes, slice(doc.tiers[i].id, 5)),
                                   slice(doc.tiers[i].id, 5))[1].id),
         doc, i + 1, video, existingTiers, markerTypes)

NothingImported == [threw |-> FALSE, markers |-> <<>>, spans |-> <<>>, newTiers |-> <<>>, n |-> 0]

importDcalAnnotationsFromEaf(xml, video, existingTiers, markerTypes) ==
  IF ~parses(xml) THEN [NothingImported EXCEPT !.threw = TRUE]
  ELSE importedTiers(NothingImported, parseEaf(xml), 1, video, existingTiers, markerTypes)

\* ------------------------------------------------------------------ click
\* The click handling of the timeline canvas (components/timeline/Timeline).
\* A record c holds dragRef.current.startX (the pointer position a gesture
\* began at), justDraggedRef, the timeout clickTimerRef stands for and the
\* markers of overlapPopup ({}: no popup).  A handler leaves a world and such
\* a record.  Positions are times, as in the timeline section: 1 px is 10 ms.
NoTimer == [kind |-> "none", id |-> NoId]
NoClick ==
  [startX |-> NoTime, justDraggedRef |-> FALSE, clickTimerRef |-> NoTimer, overlapPopup |-> {}]

\* handlePointerDown: every gesture it starts records startX
pressedAt(w, c, x) ==
  [w |-> w, c |-> IF w.dragRef # NoDrag THEN [c EXCEPT !.startX = x] ELSE c]

handlePointerDownAt(w, c, x, row, yInTier) ==
  pressedAt(handlePointerDown(w, x, row, yInTier), c, x)

\* handlePointerUp with the pointer at finalX: a gesture whose pointer ends
\* more than 3 px from startX sets justDraggedRef; a ruler scrub returns
\* before that
releasedUnflagged(w, c, finalX, w1) ==
  [w |-> w1, c |-> c]

released(w, c, finalX, w1) ==
  [w |-> w1,
   c |-> IF ~w.scrubRef /\ w.dragRef # NoDrag /\ DistPx(finalX, c.startX) > 3 * 1000
         THEN [c EXCEPT !.justDraggedRef = TRUE]
         ELSE c]

handlePointerUpAt(w, c, finalX) == released(w, c, finalX, handlePointerUp(w))

\* the requestAnimationFrame callback handlePointerUp registers
clearJustDragged(c) == [c EXCEPT !.justDraggedRef = FALSE]

setClickTimer(c, kind, id) == [c EXCEPT !.clickTimerRef = [kind |-> kind, id |-> id]]

\* handleClick for a click at time x in row `row` with click count `detail`
handleClick(w, c, x, row, detail) ==
  IF c.overlapPopup # {} THEN [w |-> w, c |-> [c EXCEPT !.overlapPopup = {}]]
  ELSE IF w.dragRef # NoDrag \/ c.justDraggedRef THEN [w |-> w, c |-> c]
  ELSE IF Len(findMarkersAt(w.ann, x, row)) > 1 THEN
    [w |-> w,
     c |-> [c EXCEPT !.overlapPopup = {m.id : m \in Range(findMarkersAt(w.ann, x, row))}]]
  ELSE IF Len(findMarkersAt(w.ann, x, row)) = 1 THEN
    [w |-> w, c |-> setClickTimer(c, "selectMarker", findMarkersAt(w.ann, x, row)[1].id)]
  ELSE IF findSpanAt(w.ann, x, row) # 0 THEN
    IF detail >= 2 THEN
      [w |-> [w EXCEPT !.ann = setEditingSpan(
                                 selectMarker(selectSpan(@, @.spans[findSpanAt(@, x, row)].id), NoId),
                                 w.ann.spans[findSpanAt(w.ann, x, row)].id)],
       c |-> [c EXCEPT !.clickTimerRef = NoTimer]]
    ELSE
      [w |-> w, c |-> setClickTimer(c, "selectSpan", w.ann.spans[findSpanAt(w.ann, x, row)].id)]
  ELSE IF row = "ruler" THEN [w |-> seek(w, x), c |-> c]
  ELSE IF detail = 2 THEN [w |-> seek(w, x), c |-> [c EXCEPT !.clickTimerRef = NoTimer]]
  ELSE [w |-> w, c |-> setClickTimer(c, "deselect", NoId)]

\* the timeout of clickTimerRef fires
clickTimeout(w, c) ==
  [w |-> [w EXCEPT !.ann =
            IF c.clickTimerRef.kind = "selectMarker" THEN selectMarker(@, c.clickTimerRef.id)
            ELSE IF c.clickTimerRef.kind = "selectSpan"
              THEN selectMarker(selectSpan(@, c.clickTimerRef.id), NoId)
            ELSE selectMarker(@, NoId)],
   c |-> [c EXCEPT !.clickTimerRef = NoTimer]]

\* handleOverlapSelect: an item of the overlap popup is chosen
handleOverlapSelect(w, c, markerId) ==
  [w |-> [w EXCEPT !.ann = selectMarker(@, markerId)], c |-> [c EXCEPT !.overlapPopup = {}]]

\* ------------------------------------------------------------------ state
VARIABLES
  annStore,     \* useAnnotationStore state with its temporal (history) store
  currentTime,  \* useVideoStore currentTime, in ms
  dragRef,      \* Timeline dragRef.current
  scrubRef,     \* Timeline scrubRef.current
  isPlaying,    \* useVideoStore isPlaying
  videoId,      \* useProjectStore currentVideoId
  holdRef,      \* useKeyboardShortcuts holdRef.current
  activeHold,   \* useUiStore activeHold
  keysDown,     \* the marker type keys the user holds down
  clickRefs,    \* Timeline startX, justDraggedRef, clickTimerRef, overlapPopup
  pointer,      \* the pointer: where it went down and up, and the click the browser owes
  ui,           \* whether a text field has the focus, and useUiStore activeDialog
  settings,     \* useSettingsStore tiers and activeTierId
  player,       \* VideoPlayer: object URLs of the videos, lazy file reads, effect state
  playback,     \* useVideoPlayback: the media element's events and the scheduled frames
  importer,     \* useEafImport: the EAF reads in flight and the effect's state
  outputDir,    \* the files of the export's output location
  toasts,       \* useUiStore toasts: the toasts on screen, each with what its Undo action runs
  view,         \* Timeline scrollLeftRef, targetScrollLeftRef, dirtyRef and canvasSizeRef
  last,         \* the last operation: name, arguments, return value, store before it
  budget        \* operations still to be explored from this state

vars ==
  <<annStore, currentTime, dragRef, scrubRef, isPlaying, videoId, holdRef, activeHold, keysDown,
    clickRefs, pointer, ui, settings, player, playback, importer, last, budget, outputDir, toasts, view>>

\* no pointer gesture begun: no click is owed
NoPointer ==
  [down |-> FALSE, downX |-> NoTime, x |-> NoTime, row |-> "", clickDue |-> FALSE,
   wasDrag |-> FALSE, found |-> [currentTime |-> NoTime, click |-> NoClick]]

\* the state outside the annotation, video and project stores and the
\* timeline's gesture refs
besideToasts == <<clickRefs, pointer, ui, settings, player, playback, importer, outputDir, view>>
elsewhere == <<besideToasts, toasts>>
ElsewhereIdle ==
  /\ clickRefs = NoClick
  /\ pointer = NoPointer
  /\ ui = NoFocus
  /\ settings = DefaultSettings
  /\ player = NoPlayer
  /\ playback = NoPlayback
  /\ importer = NoImporter
  /\ view = MountedView
  /\ toasts = NoToasts
  /\ outputDir = NoFiles

\* the timeline and the keyboard at rest, the video paused at 0
TimelineIdle ==
  /\ currentTime = 0
  /\ dragRef = NoDrag
  /\ scrubRef = FALSE
  /\ isPlaying = FALSE
  /\ videoId = currentVideoId
  /\ holdRef = NoHold
  /\ activeHold = NoActiveHold
  /\ keysDown = {}
  /\ ElsewhereIdle

\* two spans of one (tierId, videoId) whose [start,end) intervals intersect
Intersect(ms, a, b) ==
  /\ a.tierId = b.tierId /\ a.videoId = b.videoId
  /\ Resolves(ms, a) /\ Resolves(ms, b)
  /\ Max(SpanStartMs(ms, a), SpanStartMs(ms, b)) < Min(SpanEndMs(ms, a), SpanEndMs(ms, b))

NoOverlap(s) ==
  \A i, j \in 1..Len(s.spans) : i # j => ~Intersect(s.markers, s.spans[i], s.spans[j])

\* the stricter test addSpan applies (it also keeps a zero-length span out
\* of the inside of another span)
NoOverlapStrict(s) ==
  \A i, j \in 1..Len(s.spans) : i # j =>
    ~Overlapping([s EXCEPT !.spans = SubSeq(s.spans, j, j)], s.spans[i])

\* ---- the store a restored session installs (useSessionRecovery.recoverSession):
\* confirmed markers only, spans whose anchors both exist, installed with
\* setMarkers / setSpans, each skipped when its list is empty.  Markers are
\* listed in time order; a span lies on the tier and video of its anchors
\* (forwardOnly: its start marker lies before its end marker).
SessionMarkers(maxMarkers, tracks) ==
  UNION { { [i \in 1..n |-> [id |-> i, time |-> f[i][1], typeId |-> "sign-start",
                              tierId |-> f[i][2][1], videoId |-> f[i][2][2], confirmed |-> TRUE]] :
            f \in {g \in [1..n -> Times \X tracks] :
                     \A i \in 1..(n - 1) : g[i][1] <= g[i + 1][1]} } :
          n \in 0..maxMarkers }

SessionSpans(ms, maxSpans, forwardOnly) ==
  LET n == Len(ms)
      pairs == {p \in (1..n) \X (1..n) :
                  /\ p[1] # p[2]
                  /\ forwardOnly => ms[p[1]].time < ms[p[2]].time
                  /\ ms[p[1]].tierId = ms[p[2]].tierId
                  /\ ms[p[1]].videoId = ms[p[2]].videoId}
  IN  UNION { { [j \in 1..k |-> [id |-> n + j, startMarkerId |-> f[j][1], endMarkerId |-> f[j][2],
                                  tierId |-> ms[f[j][1]].tierId, videoId |-> ms[f[j][1]].videoId,
                                  gloss |-> ""]] :
                f \in [1..k -> pairs] } :
              k \in 0..maxSpans }

recoverSession(ms, sps) ==
  LET s0 == [EmptyStore EXCEPT !.nextId = Len(ms) + Len(sps) + 1]
      s1 == IF Len(ms) > 0 THEN setMarkers(s0, ms) ELSE s0
  IN  IF Len(sps) > 0 THEN setSpans(s1, sps) ELSE s1

\* `drag`, `hold` and `playing` are dragRef.current, holdRef.current and
\* isPlaying as the operation found them; `press` is the latest press of a marker type key: the key, the
\* video time and the store it found, and the events that were left then
NoPress == [key |-> "", time |-> NoTime, pre |-> EmptyStore, left |-> 0]
NoOp ==
  [op |-> "none", args |-> <<>>, ret |-> FALSE, pre |-> EmptyStore, drag |-> NoDrag,
   hold |-> NoHold, press |-> NoPress, playing |-> FALSE]

\* one call of a store operation: `new` is the store it leaves
Apply(op, args, ret, new) ==
  /\ budget > 0
  /\ annStore' = new
  /\ last' = [op |-> op, args |-> args, ret |-> ret, pre |-> annStore, drag |-> dragRef,
              hold |-> holdRef, press |-> last.press, playing |-> isPlaying]
  /\ budget' = budget - 1
  /\ UNCHANGED <<currentTime, dragRef, scrubRef, isPlaying, videoId, holdRef, activeHold, keysDown>>

Call(op, args, ret, new) == Apply(op, args, ret, new) /\ UNCHANGED elsewhere

\* one event of the timeline or the video: `w` is the world its handler leaves
World ==
  [ann |-> annStore, currentTime |-> currentTime, dragRef |-> dragRef, scrubRef |-> scrubRef,
   isPlaying |-> isPlaying, videoId |-> videoId, holdRef |-> holdRef, activeHold |-> activeHold]

Step(op, args, w) ==
  /\ budget > 0
  /\ annStore' = w.ann
  /\ currentTime' = w.currentTime
  /\ dragRef' = w.dragRef
  /\ scrubRef' = w.scrubRef
  /\ isPlaying' = w.isPlaying
  /\ videoId' = w.videoId
  /\ holdRef' = w.holdRef
  /\ activeHold' = w.activeHold
  /\ last' = [op |-> op, args |-> args, ret |-> TRUE, pre |-> annStore, drag |-> dragRef,
              hold |-> holdRef,
              press |-> IF op = "keyDown" /\ args[1] \in {"s", "e"}
                        THEN [key |-> args[1], time |-> currentTime, pre |-> annStore,
                              left |-> budget]
                        ELSE last.press,
              playing |-> isPlaying]
  /\ budget' = budget - 1

Event(op, args, w) == Step(op, args, w) /\ UNCHANGED <<keysDown, elsewhere>>

Rows == Tiers \cup {"ruler"}
\* a height in the top half and one in the bottom half of a tier row
YsInTier == {TIER_HEIGHT \div 4, (3 * TIER_HEIGHT) \div 4}

PointerDown ==
  \E x \in Times, row \in Rows, yInTier \in YsInTier :
    Event("pointerDown", <<x, row, yInTier>>, handlePointerDown(World, x, row, yInTier))

PointerMove ==
  \E x \in Times : Event("pointerMove", <<x>>, handlePointerMove(World, x))

PointerUp == Event("pointerUp", <<>>, handlePointerUp(World))

\* pointer positions off the grid of marker times: inside and outside the hit
\* width of a marker and the merge snap range of an edge
PointerXs == {0, 500, 900, 1000, 1500, 2000, 2500, 3000}

\* one pointer: it goes down when no gesture is in progress, and its moves
\* are followed while it is down (a hover changes neither store nor refs)
PointerDownAt ==
  /\ dragRef = NoDrag /\ ~scrubRef
  /\ \E x \in PointerXs, yInTier \in YsInTier :
       Event("pointerDown", <<x, "t1", yInTier>>, handlePointerDown(World, x, "t1", yInTier))

PointerMoveTo ==
  /\ dragRef # NoDrag
  /\ \E x \in PointerXs : Event("pointerMove", <<x>>, handlePointerMove(World, x))

PointerRelease ==
  /\ dragRef # NoDrag
  /\ Event("pointerUp", <<>>, handlePointerUp(World))

\* the playhead moves: a playback tick, or a seek from outside the timeline
TimeUpdate ==
  \E time \in Times : Event("timeUpdate", <<time>>, seek(World, time))

\* id arguments: every marker (span) of the store, and an id that names none
MarkerIdArgs == {annStore.markers[i].id : i \in 1..Len(annStore.markers)} \cup {NoId}
SpanIdArgs == {annStore.spans[i].id : i \in 1..Len(annStore.spans)} \cup {NoId}

PlaceMarker ==
  \E t \in Times, tier \in Tiers, v \in Videos :
    Call("placeMarker", <<t, tier, v>>, TRUE, placeMarker(annStore, t, tier, v))

ConfirmMarker ==
  \E id \in MarkerIdArgs, ty \in TypeIds :
    Call("confirmMarker", <<id, ty>>, TRUE, confirmMarker(annStore, id, ty))

CancelPendingMarker ==
  Call("cancelPendingMarker", <<>>, TRUE, cancelPendingMarker(annStore))

RemoveMarker ==
  \E id \in MarkerIdArgs : Call("removeMarker", <<id>>, TRUE, removeMarker(annStore, id))

AddSpan ==
  \E a \in MarkerIdArgs, b \in MarkerIdArgs, tier \in Tiers, v \in Videos :
    Call("addSpan", <<a, b, tier, v>>, addSpanAccepts(annStore, NewSpan(a, b, tier, v)),
         addSpan(annStore, NewSpan(a, b, tier, v)))

RemoveSpan ==
  \E id \in SpanIdArgs : Call("removeSpan", <<id>>, TRUE, removeSpan(annStore, id))

MergeSpans ==
  \E k \in SpanIdArgs, r \in SpanIdArgs :
    Call("mergeSpans", <<k, r>>, mergeSpansReturns(annStore, k, r), mergeSpans(annStore, k, r))

ClearOverlappingSpans ==
  \E a \in Times, b \in Times, tier \in Tiers, v \in Videos :
    Call("clearOverlappingSpans", <<a, b, tier, v>>, TRUE,
         clearOverlappingSpans(annStore, a, b, tier, v))

UpdateMarkerTime ==
  \E id \in MarkerIdArgs, time \in Times :
    Call("updateMarkerTime", <<id, time>>, TRUE, updateMarkerTime(annStore, id, time))

NudgeMarker ==
  \E id \in MarkerIdArgs, deltaMs \in {-GridMs, GridMs} :
    Call("nudgeMarker", <<id, deltaMs>>, TRUE, nudgeMarker(annStore, id, deltaMs, durationMs))

SelectMarker ==
  \E id \in MarkerIdArgs : Call("selectMarker", <<id>>, TRUE, selectMarker(annStore, id))

SelectNextMarker ==
  \E v \in Videos, currentMs \in Times :
    Call("selectNextMarker", <<v, currentMs>>, TRUE, selectNextMarker(annStore, v, currentMs))

SelectPrevMarker ==
  \E v \in Videos, currentMs \in Times :
    Call("selectPrevMarker", <<v, currentMs>>, TRUE, selectPrevMarker(annStore, v, currentMs))

SelectSpan ==
  \E id \in SpanIdArgs : Call("selectSpan", <<id>>, TRUE, selectSpan(annStore, id))

SetEditingSpan ==
  \E id \in SpanIdArgs : Call("setEditingSpan", <<id>>, TRUE, setEditingSpan(annStore, id))

\* the undo / redo shortcuts
Undo == Call("undo", <<>>, TRUE, undo(annStore))
Redo == Call("redo", <<>>, TRUE, redo(annStore))

\* ------------------------------------------------------------------ Spec
\* The store operations applied to a restored, overlap-free session.
MaxInitMarkers == 3
MaxInitSpans == 3
MaxOps == 1

Init ==
  /\ \E ms \in SessionMarkers(MaxInitMarkers, Tiers \X {"v1"}) :
       \E sps \in SessionSpans(ms, MaxInitSpans, FALSE) :
         /\ annStore = recoverSession(ms, sps)
         /\ NoOverlapStrict(annStore)
  /\ TimelineIdle
  /\ last = NoOp
  /\ budget = MaxOps

Next ==
  \/ PlaceMarker
  \/ ConfirmMarker
  \/ CancelPendingMarker
  \/ RemoveMarker
  \/ AddSpan
  \/ RemoveSpan
  \/ MergeSpans
  \/ ClearOverlappingSpans

Spec == Init /\ [][Next]_vars

\* ------------------------------------------------------------------ SpecPending
\* placeMarker / confirmMarker / cancelPendingMarker from the empty store.
MaxPendingOps == 3

InitPending ==
  /\ annStore = EmptyStore
  /\ TimelineIdle
  /\ last = NoOp
  /\ budget = MaxPendingOps

NextPending ==
  \/ PlaceMarker
  \/ ConfirmMarker
  \/ CancelPendingMarker

SpecPending == InitPending /\ [][NextPending]_vars

\* ------------------------------------------------------------------ SpecMerge
\* mergeSpans on restored sessions: sessions of up to MaxMergeMarkers markers
\* on three tracks whose spans run forward and do not overlap (one call), and
\* small single-track sessions whose spans may also be inverted or of zero
\* length (MaxMergeOps calls, so that a merge meets what an earlier merge
\* left behind).
MaxMergeMarkers == 4
MaxMergeSpans == 3
MaxMergeOps == 2

MergeTracks == {<<"t1", "v1">>, <<"t2", "v1">>, <<"t1", "v2">>}

InitMerge ==
  /\ \/ /\ \E ms \in SessionMarkers(MaxMergeMarkers, MergeTracks) :
             \E sps \in SessionSpans(ms, MaxMergeSpans, TRUE) :
               /\ annStore = recoverSession(ms, sps)
               /\ NoOverlapStrict(annStore)
        /\ budget = 1
     \/ /\ \E ms \in SessionMarkers(MaxInitMarkers, {<<"t1", "v1">>}) :
             \E sps \in SessionSpans(ms, MaxInitSpans, FALSE) :
               /\ annStore = recoverSession(ms, sps)
               /\ NoOverlapStrict(annStore)
        /\ budget = MaxMergeOps
  /\ TimelineIdle
  /\ last = NoOp

NextMerge == MergeSpans

SpecMerge == InitMerge /\ [][NextMerge]_vars

\* ------------------------------------------------------------------ SpecGloss
\* mergeSpans and updateSpanGloss on restored sessions whose spans carry
\* glosses: up to MaxGlossMarkers markers on one tier, up to MaxGlossSpans
\* forward spans that do not overlap (adjacent spans share their middle
\* marker or have a marker each at the same time).
MaxGlossMarkers == 4
MaxGlossSpans == 2
MaxGlossOps == 2
SpanGlosses == {"", "HELLO", "WORLD"}

Glossed(sps, glosses) == [j \in 1..Len(sps) |-> [sps[j] EXCEPT !.gloss = glosses[j]]]

UpdateSpanGloss ==
  \E id \in SpanIdArgs, gloss \in SpanGlosses :
    Call("updateSpanGloss", <<id, gloss>>, TRUE, updateSpanGloss(annStore, id, gloss))

InitGloss ==
  /\ \E ms \in SessionMarkers(MaxGlossMarkers, {<<"t1", "v1">>}) :
       \E sps \in SessionSpans(ms, MaxGlossSpans, TRUE) :
         \E glosses \in [1..Len(sps) -> SpanGlosses] :
           /\ annStore = recoverSession(ms, Glossed(sps, glosses))
           /\ NoOverlapStrict(annStore)
  /\ TimelineIdle
  /\ last = NoOp
  /\ budget = MaxGlossOps

NextGloss == MergeSpans \/ UpdateSpanGloss

SpecGloss == InitGloss /\ [][NextGloss]_vars

\* ------------------------------------------------------------------ SpecToast
\* Delete and Backspace on a selection, the Undo action of the toasts they
\* raise, and what may come between the two: a selection from a click on
\* the timeline, and a toast that goes (its timer, or a click on it).
MaxToastMarkers == 3
MaxToastSpans == 1
MaxToastEvents == 4

DeleteKey ==
  \E key \in DeleteKeys :
    /\ Step("keyDown", <<key>>, handleKeyDown(World, key))
    /\ toasts' = deleteKeyToasts(World, toasts)
    /\ UNCHANGED <<keysDown, besideToasts>>

\* a click on the Undo of the toast at position i: its callback, then
\* removeToast
ToastUndo ==
  \E i \in 1..Len(toasts) :
    /\ toasts[i].undos > 0
    /\ Apply("toastUndo", <<toasts[i]>>, TRUE, undoTimes(annStore, toasts[i].undos))
    /\ toasts' = removeToast(toasts, i)
    /\ UNCHANGED besideToasts

\* the toast at position i goes: its timer fires, or a click on its message
ToastGone ==
  \E i \in 1..Len(toasts) :
    /\ Apply("removeToast", <<toasts[i]>>, TRUE, annStore)
    /\ toasts' = removeToast(toasts, i)
    /\ UNCHANGED besideToasts

InitToast ==
  /\ \E ms \in SessionMarkers(MaxToastMarkers, {<<"t1", "v1">>}) :
       \E sps \in SessionSpans(ms, MaxToastSpans, TRUE) :
         annStore = recoverSession(ms, sps)
  /\ TimelineIdle
  /\ last = NoOp
  /\ budget = MaxToastEvents

NextToast ==
  \/ SelectMarker
  \/ SelectSpan
  \/ DeleteKey
  \/ ToastUndo
  \/ ToastGone

SpecToast == InitToast /\ [][NextToast]_vars

\* ------------------------------------------------------------------ SpecUndo
\* Store operations, selection changes, undo and redo on a small restored
\* session.
MaxUndoMarkers == 2
MaxUndoSpans == 1
MaxUndoOps == 2

InitUndo ==
  /\ \E ms \in SessionMarkers(MaxUndoMarkers, {<<"t1", "v1">>}) :
       \E sps \in SessionSpans(ms, MaxUndoSpans, TRUE) :
         annStore = recoverSession(ms, sps)
  /\ TimelineIdle
  /\ last = NoOp
  /\ budget = MaxUndoOps

NextUndo ==
  \/ PlaceMarker
  \/ ConfirmMarker
  \/ CancelPendingMarker
  \/ RemoveMarker
  \/ UpdateMarkerTime
  \/ NudgeMarker
  \/ AddSpan
  \/ RemoveSpan
  \/ MergeSpans
  \/ ClearOverlappingSpans
  \/ SelectMarker
  \/ SelectNextMarker
  \/ SelectPrevMarker
  \/ SelectSpan
  \/ SetEditingSpan
  \/ Undo
  \/ Redo

SpecUndo == InitUndo /\ [][NextUndo]_vars

\* ------------------------------------------------------------------ SpecTimeline
\* The timeline's pointer gestures and playhead changes on a small restored,
\* overlap-free session of forward spans on tier t1 of the current video.
MaxTimelineMarkers == 3
MaxTimelineSpans == 2
MaxTimelineEvents == 3

InitTimeline ==
  /\ \E ms \in SessionMarkers(MaxTimelineMarkers, {<<"t1", "v1">>}) :
       \E sps \in SessionSpans(ms, MaxTimelineSpans, TRUE) :
         /\ annStore = recoverSession(ms, sps)
         /\ NoOverlapStrict(annStore)
  /\ TimelineIdle
  /\ last = NoOp
  /\ budget = MaxTimelineEvents

NextTimeline ==
  \/ PointerDown
  \/ PointerMove
  \/ PointerUp
  \/ TimeUpdate

SpecTimeline == InitTimeline /\ [][NextTimeline]_vars

\* ------------------------------------------------------------------ SpecDrag
\* The resize-span and move-span gestures with the pointer off the grid: on
\* restored sessions whose spans may lie 5 ms apart (one gesture), and from the
\* empty store (a draw gesture, then a gesture on the span it drew).
MaxDragMarkers == 4
MaxDragSpans == 2
MaxDragEvents == 3
MaxDrawEvents == 6
DragTimes == {0, 1000, 1005, 2000, 3000}

\* SessionMarkers with the marker times drawn from `times`
SessionMarkersAt(times, maxMarkers, tracks) ==
  UNION { { [i \in 1..n |-> [id |-> i, time |-> f[i][1], typeId |-> "sign-start",
                              tierId |-> f[i][2][1], videoId |-> f[i][2][2], confirmed |-> TRUE]] :
            f \in {g \in [1..n -> times \X tracks] :
                     \A i \in 1..(n - 1) : g[i][1] <= g[i + 1][1]} } :
          n \in 0..maxMarkers }

InitDrag ==
  /\ \/ /\ \E ms \in SessionMarkersAt(DragTimes, MaxDragMarkers, {<<"t1", "v1">>}) :
            \E sps \in SessionSpans(ms, MaxDragSpans, TRUE) :
              /\ Len(sps) > 0
              /\ annStore = recoverSession(ms, sps)
              /\ NoOverlapStrict(annStore)
        /\ budget = MaxDragEvents
     \/ /\ annStore = EmptyStore
        /\ budget = MaxDrawEvents
  /\ TimelineIdle
  /\ last = NoOp

NextDrag ==
  \/ PointerDownAt
  \/ PointerMoveTo
  \/ PointerRelease

SpecDrag == InitDrag /\ [][NextDrag]_vars

\* ---- SpecResize: one gesture of SpecDrag on restored sessions of two or
\* three spans, so that a resize drag can be released on the edge of a span
\* that is not the neighbour of the resized one.
MaxResizeMarkers == 4
MaxResizeSpans == 3
MaxResizeEvents == 3
ResizeTimes == {0, 1000, 2000, 3000}

InitResize ==
  /\ \E ms \in SessionMarkersAt(ResizeTimes, MaxResizeMarkers, {<<"t1", "v1">>}) :
       \E sps \in SessionSpans(ms, MaxResizeSpans, TRUE) :
         /\ Len(sps) >= 2
         /\ annStore = recoverSession(ms, sps)
         /\ NoOverlapStrict(annStore)
  /\ TimelineIdle
  /\ last = NoOp
  /\ budget = MaxResizeEvents

NextResize ==
  \/ PointerDownAt
  \/ PointerMoveTo
  \/ PointerRelease

SpecResize == InitResize /\ [][NextResize]_vars

\* ------------------------------------------------------------------ SpecMergeToast
\* One gesture of SpecResize whose release raises the toast of a merge, and
\* the Undo action of that toast.
MaxMergeToastMarkers == 4
MaxMergeToastSpans == 2
MaxMergeToastEvents == 4

PointerReleaseToast ==
  /\ dragRef # NoDrag
  /\ Step("pointerUp", <<>>, handlePointerUp(World))
  /\ toasts' = pointerUpToasts(World, toasts)
  /\ UNCHANGED <<keysDown, besideToasts>>

InitMergeToast ==
  /\ \E ms \in SessionMarkersAt(ResizeTimes, MaxMergeToastMarkers, {<<"t1", "v1">>}) :
       \E sps \in SessionSpans(ms, MaxMergeToastSpans, TRUE) :
         /\ Len(sps) >= 2
         /\ annStore = recoverSession(ms, sps)
         /\ NoOverlapStrict(annStore)
  /\ TimelineIdle
  /\ last = NoOp
  /\ budget = MaxMergeToastEvents

NextMergeToast ==
  \/ PointerDownAt
  \/ PointerMoveTo
  \/ PointerReleaseToast
  \/ ToastUndo

SpecMergeToast == InitMergeToast /\ [][NextMergeToast]_vars

\* ---- SpecScroll: the animation loop over a timeline whose canvas gets and
\* loses its size, whose minimap is clicked, whose ruler is scrubbed and
\* whose video is played and paused.  Frames come for ever; the other events
\* are counted.
MaxScrollEvents == 3
ContentWidth == 500 * PxUnits
CanvasSizes == {<<0, 0>>, <<300 * PxUnits, 200 * PxUnits>>}
MinimapClicks == {-100 * PxUnits, 0, 2 * PxUnits, 10 * PxUnits, 150 * PxUnits, 400 * PxUnits}

\* requestAnimationFrame calls loop; `ret` tells whether the frame
\* repainted, and the argument tells a frame from the one before it
Frame ==
  /\ view' = loop(view, ContentWidth, isPlaying, dragRef # NoDrag, scrubRef)
  /\ last' = [last EXCEPT !.op = "frame",
                          !.args = <<IF last.op = "frame" THEN 1 - last.args[1] ELSE 0>>,
                          !.ret = loopDraws(view, isPlaying, dragRef # NoDrag, scrubRef) /\ paints(view)]
  /\ UNCHANGED <<annStore, currentTime, dragRef, scrubRef, isPlaying, videoId, holdRef, activeHold, keysDown,
                 clickRefs, pointer, ui, settings, player, playback, importer, outputDir, toasts, budget>>

Viewed(op, args, w, v) ==
  /\ Step(op, args, w)
  /\ view' = v
  /\ UNCHANGED <<keysDown, clickRefs, pointer, ui, settings, player, playback, importer, outputDir, toasts>>

ResizeCanvas ==
  \E size \in CanvasSizes :
    Viewed("resize", size, World, resizeCanvas(view, size[1], size[2]))

MinimapClick ==
  /\ paints(view) /\ dragRef = NoDrag /\ ~scrubRef
  /\ \E left \in MinimapClicks :
       Viewed("minimapClick", <<left>>, World, scrollToMinimapClick(view, left))

ScrubDown ==
  /\ paints(view) /\ dragRef = NoDrag /\ ~scrubRef
  /\ \E x \in Times :
       Viewed("pointerDown", <<x, "ruler", 0>>, handlePointerDown(World, x, "ruler", 0), markDirty(view))

ScrubUp ==
  /\ scrubRef
  /\ Viewed("pointerUp", <<>>, handlePointerUp(World), view)

SetPlaying ==
  \E playing \in BOOLEAN :
    /\ playing # isPlaying
    /\ Viewed("setPlaying", <<playing>>, setPlaying(World, playing), markDirty(view))

InitScroll ==
  /\ annStore = EmptyStore
  /\ TimelineIdle
  /\ last = NoOp
  /\ budget = MaxScrollEvents

NextScroll ==
  \/ Frame
  \/ ResizeCanvas
  \/ MinimapClick
  \/ ScrubDown
  \/ ScrubUp
  \/ SetPlaying

SpecScroll == InitScroll /\ [][NextScroll]_vars

\* the loop asks for its next frame at the end of every frame
SpecScrollFrames == SpecScroll /\ WF_vars(Frame)

\* ---- SpecHold: the hold-key state machine.  The video plays from 0 over a
\* restored session of tier "t1" of video "v1" (none, or spans that run
\* forward and do not overlap, their end anchors of type sign-end); the user
\* presses and releases the type keys, Enter and Space, playback advances,
\* stops, and the current video is switched.
MaxHoldMarkers == 3
MaxHoldSpans == 1
MaxHoldEvents == 4
\* marker times of the session, and the times playback is observed at
HoldMarkerTimes == {0, 1000, 2000}
HoldTimes == {500, 1000, 1010, 1800, 2000}

\* the markers that only end spans are sign-end markers
TypeEndAnchors(ms, sps) ==
  [i \in 1..Len(ms) |->
     IF /\ \E j \in 1..Len(sps) : sps[j].endMarkerId = ms[i].id
        /\ \A j \in 1..Len(sps) : sps[j].startMarkerId # ms[i].id
     THEN [ms[i] EXCEPT !.typeId = "sign-end"] ELSE ms[i]]

KeyDown ==
  \E key \in TypeKeys \ keysDown :
    /\ Step("keyDown", <<key>>, handleKeyDown(World, key))
    /\ keysDown' = keysDown \cup {key}
    /\ UNCHANGED elsewhere

KeyUp ==
  \E key \in keysDown :
    /\ Step("keyUp", <<key>>, handleKeyUp(World, key))
    /\ keysDown' = keysDown \ {key}
    /\ UNCHANGED elsewhere

EnterKey == Event("keyDown", <<"Enter">>, handleKeyDown(World, "Enter"))

SpaceKey == Event("keyDown", <<" ">>, handleKeyDown(World, " "))

\* a frame of playback: the playhead advances
Playback ==
  /\ isPlaying
  /\ \E time \in HoldTimes :
       /\ time > currentTime
       /\ Event("timeUpdate", <<time>>, setCurrentTime(World, time))

\* the pause button, or the end of the media
PlaybackStops ==
  /\ isPlaying
  /\ Event("pause", <<>>, setPlaying(World, FALSE))

SwitchVideo ==
  \E id \in Videos \ {videoId} : Event("setCurrentVideo", <<id>>, setCurrentVideo(World, id))

\* the world after a span was drawn on the empty timeline from 0 to 1000 ms:
\* its two anchors are unconfirmed and it is selected
DrawnSpanWorld ==
  handlePointerUp(
    handlePointerMove(
      handlePointerDown(
        [ann |-> EmptyStore, currentTime |-> 0, dragRef |-> NoDrag, scrubRef |-> FALSE,
         isPlaying |-> FALSE, videoId |-> currentVideoId, holdRef |-> NoHold,
         activeHold |-> NoActiveHold],
        0, "t1", TIER_HEIGHT \div 4),
      1000))

InitHold ==
  /\ \/ /\ \E ms \in SessionMarkersAt(HoldMarkerTimes, MaxHoldMarkers, {<<"t1", "v1">>}) :
            \E sps \in SessionSpans(ms, MaxHoldSpans, TRUE) :
              /\ annStore = recoverSession(TypeEndAnchors(ms, sps), sps)
              /\ NoOverlapStrict(annStore)
        /\ currentTime = 0
        /\ isPlaying = TRUE
     \/ /\ annStore = DrawnSpanWorld.ann
        /\ currentTime = DrawnSpanWorld.currentTime
        /\ isPlaying = FALSE
  /\ dragRef = NoDrag
  /\ scrubRef = FALSE
  /\ videoId = currentVideoId
  /\ holdRef = NoHold
  /\ activeHold = NoActiveHold
  /\ keysDown = {}
  /\ ElsewhereIdle
  /\ budget = MaxHoldEvents
  /\ last = NoOp

NextHold ==
  \/ KeyDown
  \/ KeyUp
  \/ EnterKey
  \/ SpaceKey
  \/ Playback
  \/ PlaybackStops
  \/ SwitchVideo

SpecHold == InitHold /\ [][NextHold]_vars

\* ------------------------------------------------------------------ recovery
\* useSessionRecovery.recoverSession from the saved session to the stores.  A
\* video is [id, path, name] ("" for no path); the remapping of the saved
\* video ids is a function on the saved ids that found a rescanned video.
\* pathToNewId: the last rescanned video with the path wins
pathToNewId(scannedVideos, path) ==
  LET I == {i \in 1..Len(scannedVideos) : scannedVideos[i].path = path}
  IN  IF I = {} THEN "" ELSE scannedVideos[CHOOSE i \in I : \A j \in I : j <= i].id

nameToNewIds(scannedVideos, name) ==
  SelectSeq(scannedVideos, LAMBDA v : v.name = name)

remapOf(scannedVideos, oldVideo) ==
  IF oldVideo.path # "" /\ pathToNewId(scannedVideos, oldVideo.path) # ""
    THEN pathToNewId(scannedVideos, oldVideo.path)
  ELSE IF Len(nameToNewIds(scannedVideos, oldVideo.name)) = 1
    THEN nameToNewIds(scannedVideos, oldVideo.name)[1].id
  ELSE ""

oldIdToNewId(sessionVideos, scannedVideos) ==
  [id \in {sessionVideos[i].id : i \in {j \in 1..Len(sessionVideos) :
                                         remapOf(scannedVideos, sessionVideos[j]) # ""}} |->
     remapOf(scannedVideos,
             sessionVideos[CHOOSE i \in 1..Len(sessionVideos) :
                             /\ sessionVideos[i].id = id
                             /\ \A j \in 1..Len(sessionVideos) : sessionVideos[j].id = id => j <= i])]

\* the saved markers, or spans, of the videos that were remapped
remapped(items, newId) ==
  LET kept == SelectSeq(items, LAMBDA m : m.videoId \in DOMAIN newId)
  IN  [i \in 1..Len(kept) |-> [kept[i] EXCEPT !.videoId = newId[kept[i].videoId]]]

validSpansUnfiltered(spans, markers) == spans

validSpans(spans, markers) ==
  SelectSeq(spans, LAMBDA sp :
    /\ sp.startMarkerId \in {markers[i].id : i \in 1..Len(markers)}
    /\ sp.endMarkerId \in {markers[i].id : i \in 1..Len(markers)})

installSpans(s, sps) == IF Len(sps) > 0 THEN setSpans(s, sps) ELSE s
installMarkers(s, ms) == IF Len(ms) > 0 THEN setMarkers(s, ms) ELSE s

\* the annotation store after recoverSession found it as s
restoredAnnotations(s, session, newId) ==
  installSpans(installMarkers(s, remapped(session.markers, newId)),
               validSpans(remapped(session.spans, newId), remapped(session.markers, newId)))

\* the current video after recoverSession
restoredVideoId(cur, session, scannedVideos, newId) ==
  IF session.currentVideoId = "" THEN cur
  ELSE IF session.currentVideoId \in DOMAIN newId THEN newId[session.currentVideoId]
  ELSE IF Len(scannedVideos) > 0 THEN scannedVideos[1].id
  ELSE cur

\* the tier registry after recoverSession
restoredSettings(st, session) ==
  IF Len(session.tiers) > 0 THEN setTiers(st, session.tiers) ELSE st

\* ------------------------------------------------------------------ SpecClick
\* Presses, drags, releases and clicks on the canvas over a restored session
\* with markers close enough to overlap under the pointer.  The browser
\* dispatches the click of a press and release right after the pointerup,
\* before any timer or animation frame callback runs.
MaxClickMarkers == 3
MaxClickSpans == 1
MaxClickEvents == 6
ClickMarkerTimes == {1000, 1050, 2000}
ClickXs == {500, 1000, 1020, 1500, 2000}
ClickRows == {"t1", "ruler"}

\* an event of the click section: `r` is the world and the click record its
\* handler leaves, `p` the pointer after it
ClickEvent(op, args, r, p) ==
  /\ Step(op, args, r.w)
  /\ clickRefs' = r.c
  /\ pointer' = p
  /\ UNCHANGED <<keysDown, ui, settings, player, playback, importer, outputDir, toasts, view>>

ClickPress ==
  /\ ~pointer.down /\ ~pointer.clickDue
  /\ \E x \in ClickXs, row \in ClickRows, yInTier \in YsInTier :
       ClickEvent("pointerDown", <<x, row, yInTier>>,
                  handlePointerDownAt(World, clickRefs, x, row, yInTier),
                  [pointer EXCEPT !.down = TRUE, !.downX = x, !.x = x, !.row = row,
                                  !.wasDrag = FALSE])

ClickMove ==
  /\ pointer.down
  /\ \E x \in ClickXs :
       ClickEvent("pointerMove", <<x>>, [w |-> handlePointerMove(World, x), c |-> clickRefs],
                  [pointer EXCEPT !.x = x])

\* the pointer goes up where it last was; wasDrag: a gesture of dragRef ended
\* more than 3 px from where it began
ClickRelease ==
  /\ pointer.down
  /\ ClickEvent("pointerUp", <<pointer.x>>, handlePointerUpAt(World, clickRefs, pointer.x),
                [pointer EXCEPT !.down = FALSE, !.clickDue = TRUE,
                                !.wasDrag = /\ dragRef # NoDrag
                                            /\ DistPx(pointer.x, pointer.downX) > 3 * 1000])

Click ==
  /\ pointer.clickDue
  /\ \E detail \in {1, 2} :
       ClickEvent("click", <<pointer.x, pointer.row, detail>>,
                  handleClick(World, clickRefs, pointer.x, pointer.row, detail),
                  [pointer EXCEPT !.clickDue = FALSE,
                                  !.found = [currentTime |-> currentTime, click |-> clickRefs]])

AnimationFrame ==
  /\ clickRefs.justDraggedRef /\ ~pointer.clickDue
  /\ ClickEvent("animationFrame", <<>>, [w |-> World, c |-> clearJustDragged(clickRefs)], pointer)

ClickTimeout ==
  /\ clickRefs.clickTimerRef # NoTimer /\ ~pointer.clickDue
  /\ ClickEvent("clickTimeout", <<>>, clickTimeout(World, clickRefs), pointer)

OverlapSelect ==
  /\ clickRefs.overlapPopup # {} /\ ~pointer.down /\ ~pointer.clickDue
  /\ \E id \in clickRefs.overlapPopup :
       ClickEvent("overlapSelect", <<id>>, handleOverlapSelect(World, clickRefs, id), pointer)

InitClick ==
  /\ \E ms \in SessionMarkersAt(ClickMarkerTimes, MaxClickMarkers, {<<"t1", "v1">>}) :
       \E sps \in SessionSpans(ms, MaxClickSpans, TRUE) :
         /\ annStore = recoverSession(ms, sps)
         /\ NoOverlapStrict(annStore)
  /\ TimelineIdle
  /\ budget = MaxClickEvents
  /\ last = NoOp

NextClick ==
  \/ ClickPress
  \/ ClickMove
  \/ ClickRelease
  \/ Click
  \/ AnimationFrame
  \/ ClickTimeout
  \/ OverlapSelect

SpecClick == InitClick /\ [][NextClick]_vars

\* ------------------------------------------------------------------ SpecFocus
\* The marker type keys while the user also clicks into a text field, leaves
\* it, and opens or closes a dialog with the pointer.
MaxFocusMarkers == 2
MaxFocusSpans == 1
MaxFocusEvents == 4
FocusTimes == {500, 1000, 1800}

FocusKeyDown ==
  \E key \in TypeKeys \ keysDown :
    /\ Step("keyDown", <<key>>, onKeyDown(World, ui, key))
    /\ keysDown' = keysDown \cup {key}
    /\ UNCHANGED elsewhere

FocusKeyUp ==
  \E key \in keysDown :
    /\ Step("keyUp", <<key>>, onKeyUp(World, ui, key))
    /\ keysDown' = keysDown \ {key}
    /\ UNCHANGED elsewhere

FocusPlayback ==
  /\ isPlaying
  /\ \E time \in FocusTimes :
       /\ time > currentTime
       /\ Event("timeUpdate", <<time>>, setCurrentTime(World, time))

\* the pointer puts the focus into a text field, or takes it out
SetFocus ==
  \E b \in BOOLEAN \ {ui.inputFocused} :
    /\ Step("focus", <<b>>, World)
    /\ ui' = [ui EXCEPT !.inputFocused = b]
    /\ UNCHANGED <<keysDown, clickRefs, pointer, settings, player, playback, importer, outputDir, toasts, view>>

\* useUiStore.openDialog / closeDialog from a button
SetDialog ==
  \E b \in BOOLEAN \ {ui.activeDialog} :
    /\ Step("dialog", <<b>>, World)
    /\ ui' = [ui EXCEPT !.activeDialog = b]
    /\ UNCHANGED <<keysDown, clickRefs, pointer, settings, player, playback, importer, outputDir, toasts, view>>

InitFocus ==
  /\ \E ms \in SessionMarkersAt(HoldMarkerTimes, MaxFocusMarkers, {<<"t1", "v1">>}) :
       \E sps \in SessionSpans(ms, MaxFocusSpans, TRUE) :
         annStore = recoverSession(TypeEndAnchors(ms, sps), sps)
  /\ currentTime = 0
  /\ isPlaying = TRUE
  /\ dragRef = NoDrag
  /\ scrubRef = FALSE
  /\ videoId = currentVideoId
  /\ holdRef = NoHold
  /\ activeHold = NoActiveHold
  /\ keysDown = {}
  /\ ElsewhereIdle
  /\ budget = MaxFocusEvents
  /\ last = NoOp

NextFocus ==
  \/ FocusKeyDown
  \/ FocusKeyUp
  \/ FocusPlayback
  \/ SetFocus
  \/ SetDialog

SpecFocus == InitFocus /\ [][NextFocus]_vars

\* ------------------------------------------------------------------ SpecTiers
\* Calls of the tier registry from the default settings.  addTier is given
\* any visible / locked flags, setActiveTier null or the id of a tier of the
\* list, reorderTiers a permutation of the list, setTiers any list of at most
\* two tiers.
MaxTiers == 3
MaxTierOps == 4
TierFlags == [visible : BOOLEAN, locked : BOOLEAN]
TierIdsOf(st) == {st.tiers[i].id : i \in 1..Len(st.tiers)}
TierLists ==
  {<<>>} \cup {<<[id |-> 1, visible |-> f.visible, locked |-> f.locked]>> : f \in TierFlags}
         \cup {<<[id |-> 1, visible |-> f.visible, locked |-> f.locked],
                 [id |-> 2, visible |-> g.visible, locked |-> g.locked]>> : f \in TierFlags, g \in TierFlags}
ReorderingsOf(tiers) ==
  {[i \in 1..Len(tiers) |-> tiers[f[i]]] :
     f \in {g \in [1..Len(tiers) -> 1..Len(tiers)] : \A i, j \in 1..Len(tiers) : g[i] = g[j] => i = j}}

TierCall(op, args, new) ==
  /\ budget > 0
  /\ settings' = new
  /\ last' = [NoOp EXCEPT !.op = op, !.args = args, !.ret = TRUE]
  /\ budget' = budget - 1
  /\ UNCHANGED <<annStore, currentTime, dragRef, scrubRef, isPlaying, videoId, holdRef, activeHold, keysDown,
                 clickRefs, pointer, ui, player, playback, importer, outputDir, toasts, view>>

AddTier ==
  /\ Len(settings.tiers) < MaxTiers
  /\ \E tier \in TierFlags : TierCall("addTier", <<tier>>, addTier(settings, tier))

RemoveTier ==
  \E id \in TierIdsOf(settings) : TierCall("removeTier", <<id>>, removeTier(settings, id))

UpdateTier ==
  \E id \in TierIdsOf(settings), update \in TierFlags :
    TierCall("updateTier", <<id, update>>, updateTier(settings, id, update))

SetTiers ==
  \E tiers \in TierLists :
    TierCall("setTiers", <<tiers>>,
             [setTiers(settings, tiers) EXCEPT !.nextId = Max(@, Len(tiers) + 1)])

ReorderTiers ==
  \E tiers \in ReorderingsOf(settings.tiers) \ {settings.tiers} :
    TierCall("reorderTiers", <<tiers>>, reorderTiers(settings, tiers))

SetActiveTier ==
  \E id \in TierIdsOf(settings) \cup {NoId} :
    TierCall("setActiveTier", <<id>>, setActiveTier(settings, id))

CycleActiveTier == TierCall("cycleActiveTier", <<>>, cycleActiveTier(settings))

InitTiers ==
  /\ annStore = EmptyStore
  /\ TimelineIdle
  /\ budget = MaxTierOps
  /\ last = NoOp

NextTiers ==
  \/ AddTier
  \/ RemoveTier
  \/ UpdateTier
  \/ SetTiers
  \/ ReorderTiers
  \/ SetActiveTier
  \/ CycleActiveTier

SpecTiers == InitTiers /\ [][NextTiers]_vars

\* ------------------------------------------------------------------ SpecLoad
\* Video switches, the effects React runs after a change of the project
\* store, and file reads settling in any order.  A switch is a user event:
\* the effects of the previous change have run by then.  A read may settle
\* before the effects of a switch have run.
MaxLoadEvents == 12

EffectsPending == playerEffects(player, videoId) # player

LoadEvent(op, args, w, p) ==
  /\ Step(op, args, w)
  /\ player' = p
  /\ UNCHANGED <<keysDown, clickRefs, pointer, ui, settings, playback, importer, outputDir, toasts, view>>

LoadSwitch ==
  /\ ~EffectsPending
  /\ \E id \in Videos \ {videoId} :
       LoadEvent("setCurrentVideo", <<id>>, setCurrentVideo(World, id),
                 [player EXCEPT !.reads = [i \in 1..Len(@) |->
                                             IF @[i].settled THEN @[i] ELSE [@[i] EXCEPT !.stale = TRUE]]])

LoadEffects ==
  /\ EffectsPending
  /\ LoadEvent("effects", <<>>, World, playerEffects(player, videoId))

\* a read settles; the arguments keep what it found
FileRead ==
  \E i \in 1..Len(player.reads) :
    /\ ~player.reads[i].settled
    /\ LoadEvent("getFile", <<player.reads[i], player.objectUrl, player.urls, player.src>>, World,
                 fileRead(player, videoId, i))

InitLoad ==
  /\ annStore = EmptyStore
  /\ TimelineIdle
  /\ budget = MaxLoadEvents
  /\ last = NoOp

NextLoad ==
  \/ LoadSwitch
  \/ LoadEffects
  \/ FileRead

SpecLoad == InitLoad /\ [][NextLoad]_vars

\* ------------------------------------------------------------------ SpecFrames
\* play(), pause(), the end of the media and load() on the element, the
\* dispatch of the events they queue, animation frames, and re-runs of the
\* effect.  Reaching the end pauses the element and queues pause and ended;
\* load() pauses it and queues emptied.
MaxFrameEvents == 7
MaxMediaEvents == 3

FrameEvent(op, args, w, f) ==
  /\ Step(op, args, w)
  /\ playback' = f
  /\ UNCHANGED <<keysDown, clickRefs, pointer, ui, settings, player, importer, outputDir, toasts, view>>

MediaPlay ==
  /\ playback.paused /\ Len(playback.events) < MaxMediaEvents
  /\ FrameEvent("play()", <<>>, World,
                [playback EXCEPT !.paused = FALSE, !.events = Append(@, "play")])

MediaPause ==
  /\ ~playback.paused /\ Len(playback.events) < MaxMediaEvents
  /\ FrameEvent("pause()", <<>>, World,
                [playback EXCEPT !.paused = TRUE, !.events = Append(@, "pause")])

MediaEnds ==
  /\ ~playback.paused /\ Len(playback.events) + 1 < MaxMediaEvents
  /\ FrameEvent("end", <<>>, World,
                [playback EXCEPT !.paused = TRUE, !.events = @ \o <<"pause", "ended">>])

MediaLoad ==
  /\ Len(playback.events) < MaxMediaEvents
  /\ FrameEvent("load()", <<>>, World,
                [playback EXCEPT !.paused = TRUE, !.events = Append(@, "emptied")])

\* the next queued media event reaches its listener; play and pause also
\* reach the video store
DispatchMediaEvent ==
  /\ playback.events # <<>>
  /\ FrameEvent(Head(playback.events), <<>>,
                IF Head(playback.events) = "emptied" THEN World
                ELSE setPlaying(World, Head(playback.events) = "play"),
                onMediaEvent([playback EXCEPT !.events = Tail(@)], Head(playback.events)))

AnimationFrameFires ==
  \E h \in playback.scheduled :
    FrameEvent("frame", <<h>>, World, updateTime(playback, h))

EffectReruns == FrameEvent("remount", <<>>, World, remountLoop(playback))

ElementReplaced == FrameEvent("replaced", <<>>, World, replaceElement(playback))

InitFrames ==
  /\ annStore = EmptyStore
  /\ TimelineIdle
  /\ budget = MaxFrameEvents
  /\ last = NoOp

NextFrames ==
  \/ MediaPlay
  \/ MediaPause
  \/ MediaEnds
  \/ MediaLoad
  \/ DispatchMediaEvent
  \/ AnimationFrameFires
  \/ EffectReruns
  \/ ElementReplaced

SpecFrames == InitFrames /\ [][NextFrames]_vars

\* ------------------------------------------------------------------ SpecNudge
\* nudgeMarker on restored markers near both ends of a video of 10 s, with
\* small and large steps in both directions and several upper limits.
MaxNudgeMarkers == 2
MaxNudges == 2
NudgeTimes == {0, 5, 9995, 10000}
NudgeDeltas == {-20000, -10, -1, 1, 10, 20000}
NudgeMaxMs == {0, 5, 10000}

NudgeBy ==
  \E id \in 1..(MaxNudgeMarkers + 1), deltaMs \in NudgeDeltas, maxMs \in NudgeMaxMs :
    Call("nudgeMarker", <<id, deltaMs, maxMs>>, TRUE, nudgeMarker(annStore, id, deltaMs, maxMs))

InitNudge ==
  /\ \E ms \in SessionMarkersAt(NudgeTimes, MaxNudgeMarkers, {<<"t1", "v1">>}) :
       annStore = recoverSession(ms, <<>>)
  /\ TimelineIdle
  /\ budget = MaxNudges
  /\ last = NoOp

NextNudge == NudgeBy

SpecNudge == InitNudge /\ [][NextNudge]_vars

\* ------------------------------------------------------------------ SpecRecovery
\* One recovery at start-up, over saved sessions of two videos "o1", "o2"
\* with up to two markers and one span (whose anchors and video may be any,
\* also a missing end anchor), and rescans that find up to two videos "v1", "v2"
\* under the same or other paths and names.
MaxSavedMarkers == 2
MaxSavedSpans == 1
VideoPaths == {"", "a"}
VideoNames == {"x", "y"}
SavedVideoIds == <<"o1", "o2">>
ScannedVideoIds == <<"v1", "v2">>

VideoLists(ids, n) ==
  {[i \in 1..n |-> [id |-> ids[i], path |-> f[i][1], name |-> f[i][2]]] :
     f \in [1..n -> VideoPaths \X VideoNames]}

ScannedVideoLists == UNION {VideoLists(ScannedVideoIds, n) : n \in 0..2}

\* the second saved video has no path
SavedVideoLists == {vs \in VideoLists(SavedVideoIds, 2) : vs[2].path = ""}

SavedMarkers ==
  UNION { { [i \in 1..n |-> [id |-> i, time |-> i * GridMs, typeId |-> "sign-start",
                              tierId |-> "t1", videoId |-> f[i], confirmed |-> TRUE]] :
            f \in [1..n -> {"o1", "o2"}] } : n \in 0..MaxSavedMarkers }

SavedSpans ==
  {<<>>} \cup
  { <<[id |-> MaxSavedMarkers + 2, startMarkerId |-> a, endMarkerId |-> b, tierId |-> "t1",
       videoId |-> v, gloss |-> ""]>> :
      a \in 1..MaxSavedMarkers, b \in 2..(MaxSavedMarkers + 1), v \in {"o1", "o2"} }

SavedSessions ==
  [videos : SavedVideoLists, markers : SavedMarkers, spans : SavedSpans,
   currentVideoId : {"", "o1"},
   tiers : {<<>>, <<[id |-> 1, visible |-> TRUE, locked |-> TRUE]>>}]

Recover ==
  /\ budget > 0
  /\ \E session \in SavedSessions, scannedVideos \in ScannedVideoLists :
    /\ annStore' = restoredAnnotations(annStore, session,
                                       oldIdToNewId(session.videos, scannedVideos))
    /\ videoId' = restoredVideoId(videoId, session, scannedVideos,
                                  oldIdToNewId(session.videos, scannedVideos))
    /\ settings' = restoredSettings(settings, session)
    /\ last' = [NoOp EXCEPT !.op = "recoverSession", !.args = <<session, scannedVideos>>,
                            !.ret = TRUE, !.pre = annStore]
    /\ budget' = budget - 1
    /\ UNCHANGED <<currentTime, dragRef, scrubRef, isPlaying, holdRef, activeHold, keysDown,
                   clickRefs, pointer, ui, player, playback, importer, outputDir, toasts, view>>

InitRecovery ==
  /\ annStore = EmptyStore
  /\ TimelineIdle
  /\ budget = 1
  /\ last = NoOp

NextRecovery == Recover

SpecRecovery == InitRecovery /\ [][NextRecovery]_vars

\* ------------------------------------------------------------------ SpecImport
\* EAF reads settling in any order while the user switches videos, the video
\* list changes (a duration or a status is stored) and the user places and
\* removes markers on the current video.
MaxImportEvents == 6
ImportTimes == {1000, 2000}

ImportPending == importEffect(importer, videoId) # importer

ImportEvent(op, args, w, m) ==
  /\ Step(op, args, w)
  /\ importer' = m
  /\ UNCHANGED <<keysDown, clickRefs, pointer, ui, settings, player, playback, outputDir, toasts, view>>

ImportSwitch ==
  /\ ~ImportPending
  /\ \E id \in Videos \ {videoId} :
       ImportEvent("setCurrentVideo", <<id>>, setCurrentVideo(World, id), importer)

VideosChange ==
  /\ ~ImportPending
  /\ ImportEvent("setVideos", <<>>, World, [importer EXCEPT !.videos = @ + 1])

ImportEffect ==
  /\ ImportPending
  /\ ImportEvent("effect", <<>>, World, importEffect(importer, videoId))

EafRead ==
  \E i \in 1..Len(importer.reads) :
    /\ ~importer.reads[i].settled
    /\ ImportEvent("eafRead", <<importer.reads[i]>>,
                   [World EXCEPT !.ann = eafRead(@, importer, i)],
                   [importer EXCEPT !.reads[i].settled = TRUE])

UserPlaces ==
  \E time \in ImportTimes :
    ImportEvent("placeMarker", <<time>>,
                [World EXCEPT !.ann = placeMarker(@, time, "t1", videoId)], importer)

UserRemoves ==
  \E i \in 1..Len(annStore.markers) :
    ImportEvent("removeMarker", <<annStore.markers[i].id>>,
                [World EXCEPT !.ann = removeMarker(@, annStore.markers[i].id)], importer)

InitImport ==
  /\ annStore = EmptyStore
  /\ TimelineIdle
  /\ budget = MaxImportEvents
  /\ last = NoOp

NextImport ==
  \/ ImportSwitch
  \/ VideosChange
  \/ ImportEffect
  \/ EafRead
  \/ UserPlaces
  \/ UserRemoves

SpecImport == InitImport /\ [][NextImport]_vars

\* ------------------------------------------------------------------ SpecExport
\* Exports of videos named a and b into an output location that is empty,
\* holds earlier exports, or holds every name findSafeFilename tries; the
\* location is a local folder or a remote path.
MaxExports == 2
ExportBases == {"a", "b"}
ExportStamps == {1000, 1001}
ExistingSuffixes == {{}, {0}, {0, 1}, {0, 1, 2}, 0..(SuffixLimit - 1)}

ExportFile ==
  /\ budget > 0
  /\ \E mode \in {"local", "remote"}, base \in ExportBases, now \in ExportStamps :
       /\ outputDir' = writeFile(outputDir, exportedName(outputDir, mode, base, now),
                                 MaxExports - budget + 1)
       /\ last' = [NoOp EXCEPT !.op = "export", !.args = <<mode, base, outputDir>>,
                               !.ret = exportedName(outputDir, mode, base, now)]
  /\ budget' = budget - 1
  /\ UNCHANGED <<annStore, currentTime, dragRef, scrubRef, isPlaying, videoId, holdRef, activeHold, keysDown,
                 clickRefs, pointer, ui, settings, player, playback, importer, toasts, view>>

InitExport ==
  /\ annStore = EmptyStore
  /\ currentTime = 0
  /\ dragRef = NoDrag
  /\ scrubRef = FALSE
  /\ isPlaying = FALSE
  /\ videoId = currentVideoId
  /\ holdRef = NoHold
  /\ activeHold = NoActiveHold
  /\ keysDown = {}
  /\ clickRefs = NoClick
  /\ pointer = NoPointer
  /\ ui = NoFocus
  /\ settings = DefaultSettings
  /\ player = NoPlayer
  /\ playback = NoPlayback
  /\ importer = NoImporter
  /\ view = MountedView
  /\ toasts = NoToasts
  /\ \E f \in [ExportBases -> ExistingSuffixes] :
       outputDir = [name \in {n \in ExportBases \X (0..(SuffixLimit - 1)) : n[2] \in f[n[1]]} |-> 0]
  /\ budget = MaxExports
  /\ last = NoOp

NextExport == ExportFile

SpecExport == InitExport /\ [][NextExport]_vars

\* ------------------------------------------------------------------ SpecEaf
\* One export of a video's annotations with generateEaf and the import of
\* the result with importDcalAnnotationsFromEaf.  The tier "t" holds one
\* span; its gloss, the times and confirmation of its anchors, the tier's
\* name, a further marker and a second tier vary.
MaxGlossLen == 2
GlossChars == {"S", "&", "<", "\"", ESC}
Glosses == UNION {[1..n -> GlossChars] : n \in 0..MaxGlossLen} \cup {Amp}
TierNames == {<<"t">>, <<"t", "&">>, <<"t", TAB>>}
StartTenths == {4996, 5000}
EndTenths == {5010, 15000, 15004}
EafMarkerTypes ==
  <<[id |-> "sign-start", name |-> <<"S", "t", "a", "r", "t">>],
    [id |-> "sign-end", name |-> <<"E", "n", "d">>]>>
SpanTier(name) == [id |-> <<"tier", 1>>, name |-> name, markerTypes |-> typeIds(EafMarkerTypes)]
OtherTier == [id |-> <<"tier", 2>>, name |-> <<"u">>, markerTypes |-> <<"sign-end">>]
FurtherMarkers ==
  {<<>>}
    \cup {<<[id |-> <<"m", 3>>, time |-> t, typeId |-> "sign-end", tierId |-> <<"tier", k>>,
             videoId |-> "v1", confirmed |-> c]>> :
           t \in {5000, 10000}, k \in 1..2, c \in BOOLEAN}

EafOptions(gloss, name, start, end, startConfirmed, endConfirmed, further, others, participant) ==
  [mediaFile |-> <<"v">>, author |-> <<"D">>, participant |-> participant,
   markers |-> <<[id |-> <<"m", 1>>, time |-> start, typeId |-> "sign-start",
                  tierId |-> <<"tier", 1>>, videoId |-> "v1", confirmed |-> startConfirmed]>>
                 \o further
                 \o <<[id |-> <<"m", 2>>, time |-> end, typeId |-> "sign-end",
                       tierId |-> <<"tier", 1>>, videoId |-> "v1", confirmed |-> endConfirmed]>>,
   spans |-> <<[id |-> <<"sp", 1>>, startMarkerId |-> <<"m", 1>>, endMarkerId |-> <<"m", 2>>,
                tierId |-> <<"tier", 1>>, videoId |-> "v1", gloss |-> gloss]>>,
   tiers |-> others \o <<SpanTier(name)>>,
   markerTypes |-> EafMarkerTypes]

EafCall(op, args, ret) ==
  /\ last' = [NoOp EXCEPT !.op = op, !.args = args, !.ret = ret]
  /\ budget' = budget - 1
  /\ UNCHANGED <<annStore, currentTime, dragRef, scrubRef, isPlaying, videoId, holdRef, activeHold, keysDown,
                 elsewhere>>

GenerateEaf ==
  /\ budget > 0
  /\ last.op = "none"
  /\ \E gloss \in Glosses, name \in TierNames, start \in StartTenths, end \in EndTenths,
        startConfirmed \in BOOLEAN, endConfirmed \in BOOLEAN, further \in FurtherMarkers,
        others \in {<<>>, <<OtherTier>>}, participant \in {<<>>, <<"p">>} :
       EafCall("generateEaf",
               <<EafOptions(gloss, name, start, end, startConfirmed, endConfirmed, further,
                            others, participant)>>,
               generateEaf(EafOptions(gloss, name, start, end, startConfirmed, endConfirmed,
                                      further, others, participant)))

ImportEaf ==
  /\ budget > 0
  /\ last.op = "generateEaf"
  /\ \E existingTiers \in {<<>>, <<SpanTier(<<"t">>)>>, <<SpanTier(<<"t">>), OtherTier>>} :
       EafCall("importDcalAnnotationsFromEaf", <<last.args[1], last.ret, existingTiers>>,
               importDcalAnnotationsFromEaf(last.ret, "v1", existingTiers, EafMarkerTypes))

InitEaf ==
  /\ annStore = EmptyStore
  /\ currentTime = 0
  /\ dragRef = NoDrag
  /\ scrubRef = FALSE
  /\ isPlaying = FALSE
  /\ videoId = currentVideoId
  /\ holdRef = NoHold
  /\ activeHold = NoActiveHold
  /\ keysDown = {}
  /\ ElsewhereIdle
  /\ budget = 2
  /\ last = NoOp

NextEaf == GenerateEaf \/ ImportEaf

SpecEaf == InitEaf /\ [][NextEaf]_vars

\* ------------------------------------------------------------------ claims
\* C1 (as claimed): after any sequence of addSpan, mergeSpans and
\* clearOverlappingSpans calls on an overlap-free store, no two spans of one
\* (tierId, videoId) have intersecting [start,end) effective intervals.
C1_NoOverlapAfterSpanOps ==
  last.op \in {"addSpan", "mergeSpans", "clearOverlappingSpans"} => NoOverlap(annStore)

\* C3 (as claimed): after any sequence of store operations every span's
\* startMarkerId and endMarkerId name markers that exist in the store.
C3_SpansReferToMarkers ==
  \A i \in 1..Len(annStore.spans) : Resolves(annStore.markers, annStore.spans[i])

\* C4 (as claimed): after any sequence of placeMarker, confirmMarker and
\* cancelPendingMarker calls at most one marker of the store is unconfirmed.
Unconfirmed(s) == {i \in 1..Len(s.markers) : ~s.markers[i].confirmed}
C4_AtMostOneUnconfirmed == Cardinality(Unconfirmed(annStore)) <= 1

\* C5 (as claimed): right after clearOverlappingSpans(startMs, endMs, tier, video)
\* with startMs < endMs, addSpan of a span anchored on two markers placed at
\* startMs and endMs on that tier and video is accepted.
C5_AddSpanAfterClearAccepted ==
  (last.op = "clearOverlappingSpans" /\ last.args[1] < last.args[2]) =>
    LET s1 == placeMarker(annStore, last.args[1], last.args[3], last.args[4])
        s2 == placeMarker(s1, last.args[2], last.args[3], last.args[4])
    IN  addSpanAccepts(s2, NewSpan(annStore.nextId, s1.nextId, last.args[3], last.args[4]))

\* C6: mergeSpans(keepSpanId, removeSpanId) returns false and leaves the whole
\* store (markers, spans, selection, history) as it was whenever a span or
\* one of the four anchor markers is missing, the spans lie on different
\* tiers or videos, or a third span of their tier and video intersects the
\* merged interval [min(starts), max(ends)).
MergedIntersectsThird(s, keepSpanId, removeSpanId) ==
  LET a == FindSpan(s.spans, keepSpanId)
      b == FindSpan(s.spans, removeSpanId)
      lo == Min(SpanStartMs(s.markers, a), SpanStartMs(s.markers, b))
      hi == Max(SpanEndMs(s.markers, a), SpanEndMs(s.markers, b))
  IN  \E i \in 1..Len(s.spans) :
        LET third == s.spans[i]
        IN  /\ third.id \notin {keepSpanId, removeSpanId}
            /\ third.tierId = a.tierId /\ third.videoId = a.videoId
            /\ Resolves(s.markers, third)
            /\ Max(lo, SpanStartMs(s.markers, third)) < Min(hi, SpanEndMs(s.markers, third))

BothMergeable(s, keepSpanId, removeSpanId) ==
  /\ HasSpan(s.spans, keepSpanId) /\ HasSpan(s.spans, removeSpanId)
  /\ Resolves(s.markers, FindSpan(s.spans, keepSpanId))
  /\ Resolves(s.markers, FindSpan(s.spans, removeSpanId))
  /\ FindSpan(s.spans, keepSpanId).tierId = FindSpan(s.spans, removeSpanId).tierId
  /\ FindSpan(s.spans, keepSpanId).videoId = FindSpan(s.spans, removeSpanId).videoId

MustReject(s, keepSpanId, removeSpanId) ==
  \/ ~BothMergeable(s, keepSpanId, removeSpanId)
  \/ MergedIntersectsThird(s, keepSpanId, removeSpanId)

C6_MergeRejectsWithoutMutation ==
  (last.op = "mergeSpans" /\ MustReject(last.pre, last.args[1], last.args[2])) =>
    (last.ret = FALSE /\ annStore = last.pre)

\* a merge of two mergeable spans rejected because of a third span
C6_ThirdSpanRejected ==
  /\ last.op = "mergeSpans"
  /\ BothMergeable(last.pre, last.args[1], last.args[2])
  /\ last.args[1] # last.args[2]
  /\ MergedIntersectsThird(last.pre, last.args[1], last.args[2])
  /\ last.ret = FALSE

\* C7 (as claimed): whenever mergeSpans(keepSpanId, removeSpanId) on two
\* different spans returns true, the removed span is gone and the kept span
\* exists, is anchored on two of the four original anchor markers, and has
\* the effective interval [min(starts), max(ends)] of the two original spans.
C7_MergedSpanIsOutermost ==
  (last.op = "mergeSpans" /\ last.ret /\ last.args[1] # last.args[2]) =>
    LET pre == last.pre
        a == FindSpan(pre.spans, last.args[1])
        b == FindSpan(pre.spans, last.args[2])
        kept == FindSpan(annStore.spans, last.args[1])
    IN  /\ ~HasSpan(annStore.spans, last.args[2])
        /\ HasSpan(annStore.spans, last.args[1])
        /\ Resolves(annStore.markers, kept)
        /\ {kept.startMarkerId, kept.endMarkerId} \subseteq
             {a.startMarkerId, a.endMarkerId, b.startMarkerId, b.endMarkerId}
        /\ SpanStartMs(annStore.markers, kept) =
             Min(SpanStartMs(pre.markers, a), SpanStartMs(pre.markers, b))
        /\ SpanEndMs(annStore.markers, kept) =
             Max(SpanEndMs(pre.markers, a), SpanEndMs(pre.markers, b))

\* C8 (as claimed): after a mutating store operation that changed (markers,
\* spans), undo() restores exactly the (markers, spans) from before the
\* operation, and undo(); redo() restores exactly those from after it.
MutatingOps ==
  {"placeMarker", "confirmMarker", "cancelPendingMarker", "removeMarker",
   "updateMarkerTime", "nudgeMarker", "addSpan", "removeSpan", "mergeSpans",
   "clearOverlappingSpans"}

C8_UndoRedoRoundTrip ==
  (last.op \in MutatingOps /\ partialize(annStore) # partialize(last.pre)) =>
    /\ partialize(undo(annStore)) = partialize(last.pre)
    /\ partialize(redo(undo(annStore))) = partialize(annStore)

\* C9 (as claimed): after any undo or redo, pendingMarkerId and
\* selectedMarkerId are each null or the id of a marker in the store.
C9_NoOrphanRefsAfterUndoRedo ==
  last.op \in {"undo", "redo"} =>
    /\ annStore.pendingMarkerId = NoId \/ HasMarker(annStore.markers, annStore.pendingMarkerId)
    /\ annStore.selectedMarkerId = NoId \/ HasMarker(annStore.markers, annStore.selectedMarkerId)

\* C10 (as claimed): a selection-only operation adds no entry to the undo
\* history, so a single undo after it restores the (markers, spans) that a
\* single undo before it would have restored.
SelectionOps ==
  {"selectMarker", "selectSpan", "setEditingSpan", "selectNextMarker", "selectPrevMarker"}

C10_SelectionNotRecorded ==
  last.op \in SelectionOps =>
    /\ annStore.pastStates = last.pre.pastStates
    /\ partialize(undo(annStore)) = partialize(undo(last.pre))

\* C2 (as claimed): after any sequence of user-level actions, here pointer
\* gestures on the timeline and playhead changes, no two spans of one
\* (tierId, videoId) have overlapping effective intervals.
C2_NoOverlapAfterGestures == NoOverlap(annStore)

\* the effective interval <<min, max>> of a span whose anchors exist
Interval(ms, span) == <<SpanStartMs(ms, span), SpanEndMs(ms, span)>>

\* C18 (as claimed): when confirmMarker is applied to a marker whose time t lies
\* strictly inside the effective interval [a,b] of a span on the marker's tier
\* and video, that span's interval becomes [a,t] and the interval of every
\* other span is what it was.
C18_ConfirmInsideSpanTrimsItsEnd ==
  (last.op = "confirmMarker" /\ HasMarker(last.pre.markers, last.args[1])) =>
    LET pre == last.pre
        marker == FindMarker(pre.markers, last.args[1])
        Inside(sp) == /\ sp.tierId = marker.tierId /\ sp.videoId = marker.videoId
                      /\ Resolves(pre.markers, sp)
                      /\ SpanStartMs(pre.markers, sp) < marker.time
                      /\ marker.time < SpanEndMs(pre.markers, sp)
    IN  \A i \in 1..Len(pre.spans) : Inside(pre.spans[i]) =>
          /\ Interval(annStore.markers, annStore.spans[i])
               = <<SpanStartMs(pre.markers, pre.spans[i]), marker.time>>
          /\ \A j \in 1..Len(pre.spans) : (j # i /\ Resolves(pre.markers, pre.spans[j])) =>
                Interval(annStore.markers, annStore.spans[j]) = Interval(pre.markers, pre.spans[j])

\* a resize drag of the end edge of span A = last.drag.spanId was released
\* snapped onto the start edge of the span B = last.drag.mergeTargetSpanId,
\* which lies to the right of A on A's tier and video
ReleasedOnRightNeighbour ==
  /\ last.op = "pointerUp"
  /\ last.drag.mode = "span-resize"
  /\ last.drag.inMergeZone
  /\ HasSpan(last.pre.spans, last.drag.spanId)
  /\ HasSpan(last.pre.spans, last.drag.mergeTargetSpanId)
  /\ LET A == FindSpan(last.pre.spans, last.drag.spanId)
         B == FindSpan(last.pre.spans, last.drag.mergeTargetSpanId)
     IN  /\ last.drag.markerId = A.endMarkerId
         /\ Resolves(last.pre.markers, A) /\ Resolves(last.pre.markers, B)
         /\ A.tierId = B.tierId /\ A.videoId = B.videoId
         /\ last.drag.originalTimeMs <= SpanStartMs(last.pre.markers, B)
         /\ last.drag.currentTimeMs = SpanStartMs(last.pre.markers, B)
         /\ Len(last.pre.spans) = 2

\* C13: with two spans on one tier and video, the left one's right edge
\* dragged into the merge snap range of the right one's left edge and released
\* leaves exactly one span, from the left span's start to the right span's end
\* ([0,1000] and [1005,2000] give [0,2000]).
C13_ResizeIntoSnapRangeMerges ==
  ReleasedOnRightNeighbour =>
    LET A == FindSpan(last.pre.spans, last.drag.spanId)
        B == FindSpan(last.pre.spans, last.drag.mergeTargetSpanId)
    IN  /\ Len(annStore.spans) = 1
        /\ Resolves(annStore.markers, annStore.spans[1])
        /\ annStore.spans[1].tierId = A.tierId /\ annStore.spans[1].videoId = A.videoId
        /\ Interval(annStore.markers, annStore.spans[1])
             = <<SpanStartMs(last.pre.markers, A), SpanEndMs(last.pre.markers, B)>>

\* the spans [0,1000] and [1005,2000], the pointer released 105 ms before 1005
C13_MergedAcrossGap ==
  /\ ReleasedOnRightNeighbour
  /\ last.args = <<>>
  /\ Interval(last.pre.markers, FindSpan(last.pre.spans, last.drag.spanId)) = <<0, 1000>>
  /\ Interval(last.pre.markers, FindSpan(last.pre.spans, last.drag.mergeTargetSpanId)) = <<1005, 2000>>
  /\ currentTime = 900
  /\ Len(annStore.spans) = 1
  /\ Interval(annStore.markers, annStore.spans[1]) = <<0, 2000>>

\* the interval the resized span d.spanId has when its dragged edge stands at
\* d.currentTimeMs, and whether that edge stands on the far side of the
\* span's opposite anchor
ResizedAnchorMs(ann, d) ==
  LET S == FindSpan(ann.spans, d.spanId)
  IN  FindMarker(ann.markers, IF d.markerId = S.startMarkerId THEN S.endMarkerId ELSE S.startMarkerId).time

ResizedCrossesAnchor(ann, d) ==
  IF d.markerId = FindSpan(ann.spans, d.spanId).startMarkerId
  THEN d.currentTimeMs > ResizedAnchorMs(ann, d)
  ELSE d.currentTimeMs < ResizedAnchorMs(ann, d)

ResizedOverlapsOther(ann, d) ==
  LET S == FindSpan(ann.spans, d.spanId)
      lo == Min(d.currentTimeMs, ResizedAnchorMs(ann, d))
      hi == Max(d.currentTimeMs, ResizedAnchorMs(ann, d))
  IN  \E i \in 1..Len(ann.spans) :
        /\ ann.spans[i].id # S.id
        /\ ann.spans[i].tierId = S.tierId /\ ann.spans[i].videoId = S.videoId
        /\ Resolves(ann.markers, ann.spans[i])
        /\ Max(lo, SpanStartMs(ann.markers, ann.spans[i])) < Min(hi, SpanEndMs(ann.markers, ann.spans[i]))

\* a pointer move of a resize drag that left the edge outside every merge zone
ResizingOutsideSnap ==
  /\ last.op = "pointerMove"
  /\ dragRef.mode = "span-resize"
  /\ ~dragRef.inMergeZone
  /\ HasSpan(annStore.spans, dragRef.spanId)
  /\ Resolves(annStore.markers, FindSpan(annStore.spans, dragRef.spanId))

\* the release of a resize drag that moved the edge and did not merge
ResizeCommitted ==
  /\ last.op = "pointerUp"
  /\ last.drag.mode = "span-resize"
  /\ ~last.drag.inMergeZone
  /\ last.drag.currentTimeMs # last.drag.originalTimeMs
  /\ HasSpan(annStore.spans, last.drag.spanId)
  /\ Resolves(annStore.markers, FindSpan(annStore.spans, last.drag.spanId))

C20_MoveSpanKeepsSeparation ==
  (/\ last.op = "pointerUp"
   /\ last.drag.mode = "span-move"
   /\ HasMarker(annStore.markers, last.drag.markerId)
   /\ HasMarker(annStore.markers, last.drag.secondMarkerId)) =>
    LET startMs == FindMarker(annStore.markers, last.drag.markerId).time
        endMs == FindMarker(annStore.markers, last.drag.secondMarkerId).time
    IN  /\ endMs - startMs = last.drag.endMarkerOrigMs - last.drag.startMarkerOrigMs
        /\ 0 <= startMs /\ startMs <= durationMs
        /\ 0 <= endMs /\ endMs <= durationMs

\* the markers of the store that are confirmed markers of the type at the time
ConfirmedAt(s, typeId, time) ==
  {i \in 1..Len(s.markers) :
     /\ s.markers[i].confirmed /\ s.markers[i].typeId = typeId /\ s.markers[i].time = time
     /\ s.markers[i].tierId = activeTierId /\ s.markers[i].videoId = currentVideoId}

\* "s" is released at 1800 ms, having been pressed at 500 ms over an empty
\* tier: the store held the one sign-start marker the press placed
ReleasedHoldFrom500 ==
  /\ last.op = "keyUp" /\ last.args = <<"s">>
  /\ last.hold.key = "s" /\ last.hold.existingSpanId = NoId
  /\ isPlaying /\ currentTime = 1800
  /\ last.pre.spans = <<>> /\ Len(last.pre.markers) = 1
  /\ ConfirmedAt(last.pre, "sign-start", 500) = {1}
  /\ last.pre.markers[1].id = last.hold.startMarkerId

OneSelectedSpan500To1800 ==
  /\ Len(annStore.markers) = 2 /\ Len(annStore.spans) = 1
  /\ \E i \in ConfirmedAt(annStore, "sign-start", 500) :
       \E j \in ConfirmedAt(annStore, "sign-end", 1800) :
         /\ annStore.spans[1].startMarkerId = annStore.markers[i].id
         /\ annStore.spans[1].endMarkerId = annStore.markers[j].id
  /\ annStore.selectedSpanId = annStore.spans[1].id

\* C11: with the video playing, no pending marker and an empty active tier,
\* pressing "s" at 500 ms and releasing it at 1800 ms leaves exactly one
\* confirmed sign-start marker at 500 ms, exactly one confirmed sign-end
\* marker at 1800 ms and exactly one span anchored on the two, selected.
C11_HoldAndReleaseCreatesSpan == ReleasedHoldFrom500 => OneSelectedSpan500To1800

C11_HeldFrom500To1800 == ReleasedHoldFrom500 /\ OneSelectedSpan500To1800

\* the latest press of a type key was the event before the last one
JustPressed == budget = last.press.left - 2

\* "e" was tapped at 2000 ms (pressed and released with nothing in between)
\* over a tier whose confirmed markers were one sign-start marker at 1000 ms,
\* with no span
TappedEndAt2000 ==
  /\ last.op = "keyUp" /\ last.args = <<"e">>
  /\ last.press.key = "e" /\ JustPressed
  /\ last.press.time = 2000 /\ currentTime = 2000
  /\ last.press.pre.spans = <<>>
  /\ \E i \in ConfirmedAt(last.press.pre, "sign-start", 1000) :
       \A j \in 1..Len(last.press.pre.markers) : last.press.pre.markers[j].confirmed => j = i

\* C12: a quick tap of the sign-end key at 2000 ms on a tier holding one
\* confirmed sign-start marker at 1000 ms and no span gives exactly one new
\* span, from the existing sign-start marker to a sign-end marker at 2000 ms,
\* and no other marker is created or left without a span.
C12_TapPairsWithStart ==
  TappedEndAt2000 =>
    /\ Len(annStore.spans) = 1 /\ Len(annStore.markers) = 2
    /\ \E i \in ConfirmedAt(annStore, "sign-start", 1000) :
         \E j \in ConfirmedAt(annStore, "sign-end", 2000) :
           /\ HasMarker(last.press.pre.markers, annStore.markers[i].id)
           /\ annStore.spans[1].startMarkerId = annStore.markers[i].id
           /\ annStore.spans[1].endMarkerId = annStore.markers[j].id

\* the world the last event found, as far as the keyboard hook reads it (the
\* video time is the present one: the event did not move the playhead)
WorldBefore ==
  [World EXCEPT !.ann = last.pre, !.holdRef = last.hold, !.isPlaying = TRUE]

\* playback stopped while a key was held in hold mode
StoppedWhileHeld == last.op = "pause" /\ last.hold # NoHold

\* a key was released that no hold is tracked for
ReleasedUntracked ==
  last.op = "keyUp" /\ (last.hold = NoHold \/ last.hold.key # last.args[1])

\* C14: when playback stops while a type key is held in hold mode, the hold
\* is finalized as if the key had been released at the current video time
\* and the hold state is cleared; the later release of the key changes
\* neither markers nor spans.
C14_StopFinalizesHold ==
  /\ StoppedWhileHeld =>
       /\ holdRef = NoHold
       /\ annStore = handleKeyUp(WorldBefore, last.hold.key).ann
  /\ ReleasedUntracked =>
       /\ holdRef = last.hold
       /\ annStore = last.pre

\* "s" was pressed while playing, playback went on and then stopped, which
\* created the span of the hold, and then the key was released
C14_ReleasedAfterStop ==
  /\ ReleasedUntracked /\ last.hold = NoHold /\ ~isPlaying
  /\ last.press.key = last.args[1]
  /\ budget = last.press.left - 4
  /\ last.pre.pendingMarkerId = NoId
  /\ Len(last.pre.spans) = Len(last.press.pre.spans) + 1
  /\ last.pre.selectedSpanId = last.pre.spans[Len(last.pre.spans)].id

\* the current video changed while a key was held in hold mode
SwitchedWhileHeld == last.op = "setCurrentVideo" /\ last.hold # NoHold

\* C15: when the current video changes while a type key is held in hold
\* mode, the hold is discarded without finalizing: no marker is placed, no
\* span is created and no anchor is relocated, the hold state is cleared, and
\* the later release of the key has no effect.
C15_SwitchDiscardsHold ==
  /\ SwitchedWhileHeld =>
       /\ holdRef = NoHold
       /\ annStore.spans = last.pre.spans
       /\ Range(annStore.markers) \subseteq Range(last.pre.markers)
       /\ \A m \in Range(last.pre.markers) : m.confirmed => m \in Range(annStore.markers)
  /\ (last.op = "keyUp" /\ last.hold = NoHold /\ last.press.key = last.args[1]) =>
       /\ holdRef = NoHold
       /\ annStore.markers = last.pre.markers
       /\ annStore.spans = last.pre.spans

\* a key was pressed while playing and started a hold from a new marker,
\* one more event passed with the key down, and the video was switched
C15_SwitchedDuringHold ==
  /\ SwitchedWhileHeld /\ last.hold.existingSpanId = NoId
  /\ last.hold.key = last.press.key /\ keysDown = {last.hold.key}
  /\ budget = last.press.left - 3
  /\ holdRef = NoHold
  /\ annStore.spans = last.press.pre.spans
  /\ Len(annStore.markers) = Len(last.press.pre.markers) + 1

\* a genuine hold was released: the key of the latest press, which started a
\* hold from a marker at the video time t0 of the press, is released at t1,
\* at least 20 ms later
ReleasedGenuineHold ==
  /\ last.op = "keyUp" /\ last.hold # NoHold
  /\ last.hold.key = last.args[1] /\ last.press.key = last.args[1]
  /\ last.hold.existingSpanId = NoId
  /\ FindMarker(last.pre.markers, last.hold.startMarkerId).time = last.press.time
  /\ currentTime >= last.press.time + 20

\* the span of the store before the press overlaps [t0,t1] from the left: it
\* starts before t0 and ends inside (t0,t1)
OverlapsFromLeft(span) ==
  /\ span.tierId = last.hold.tierId /\ span.videoId = last.hold.videoId
  /\ Resolves(last.press.pre.markers, span)
  /\ SpanStartMs(last.press.pre.markers, span) < last.press.time
  /\ last.press.time < SpanEndMs(last.press.pre.markers, span)
  /\ SpanEndMs(last.press.pre.markers, span) < currentTime

\* from the right: it starts inside (t0,t1) and ends after t1
OverlapsFromRight(span) ==
  /\ span.tierId = last.hold.tierId /\ span.videoId = last.hold.videoId
  /\ Resolves(last.press.pre.markers, span)
  /\ last.press.time < SpanStartMs(last.press.pre.markers, span)
  /\ SpanStartMs(last.press.pre.markers, span) < currentTime
  /\ currentTime < SpanEndMs(last.press.pre.markers, span)

\* the span [t0,t1] of the hold is there and selected
HoldSpanSelected ==
  \E i \in 1..Len(annStore.spans) :
    /\ Resolves(annStore.markers, annStore.spans[i])
    /\ Interval(annStore.markers, annStore.spans[i]) = <<last.press.time, currentTime>>
    /\ annStore.spans[i].startMarkerId = last.hold.startMarkerId
    /\ annStore.selectedSpanId = annStore.spans[i].id

\* the span survives with the given interval
SurvivesAs(span, startMs, endMs) ==
  /\ HasSpan(annStore.spans, span.id)
  /\ Resolves(annStore.markers, FindSpan(annStore.spans, span.id))
  /\ Interval(annStore.markers, FindSpan(annStore.spans, span.id)) = <<startMs, endMs>>

\* C16: when a genuine hold from t0 to t1 is released on a tier that already
\* holds a span overlapping [t0,t1] partially, from the left or from the
\* right, that span survives with only its overlapping boundary trimmed to
\* the edge of the new interval, and the new span [t0,t1] is created and
\* selected.
C16_HoldTrimsPartialOverlap ==
  ReleasedGenuineHold =>
    \A span \in Range(last.press.pre.spans) :
      /\ OverlapsFromLeft(span) =>
           /\ SurvivesAs(span, SpanStartMs(last.press.pre.markers, span), last.press.time)
           /\ HoldSpanSelected
      /\ OverlapsFromRight(span) =>
           /\ SurvivesAs(span, currentTime, SpanEndMs(last.press.pre.markers, span))
           /\ HoldSpanSelected

\* a hold that extends a span which was there before the key press is
\* released
ReleasedExtension ==
  /\ last.op = "keyUp" /\ last.hold # NoHold
  /\ last.hold.key = last.args[1] /\ last.press.key = last.args[1]
  /\ last.hold.existingSpanId # NoId
  /\ HasSpan(last.press.pre.spans, last.hold.existingSpanId)
  /\ Resolves(last.press.pre.markers, FindSpan(last.press.pre.spans, last.hold.existingSpanId))

\* C17: when a hold that extends an existing span is released, the span's
\* end anchor is relocated only if the release point is more than 20 ms past
\* the end boundary the span had before the key was pressed; otherwise the
\* span's interval after the release is its interval before the key press.
C17_ExtensionNeedsMeaningfulMove ==
  ReleasedExtension =>
    LET before == FindSpan(last.press.pre.spans, last.hold.existingSpanId)
        after == FindSpan(annStore.spans, last.hold.existingSpanId)
    IN  currentTime <= SpanEndMs(last.press.pre.markers, before) + 20 =>
          /\ after.id # NoId /\ Resolves(annStore.markers, after)
          /\ Interval(annStore.markers, after) = Interval(last.press.pre.markers, before)

\* the last event was the click that follows the release of a drag whose
\* pointer ended more than 3 px from where it went down
ClickAfterDrag == last.op = "click" /\ pointer.wasDrag

C22_NoKeyEffectWhileTyping ==
  (last.op \in {"keyDown", "keyUp"} /\ (ui.inputFocused \/ ui.activeDialog)) =>
    /\ annStore = last.pre
    /\ isPlaying = last.playing
    /\ holdRef = last.hold

\* C23 (as claimed): after any sequence of tier-registry operations the
\* active tier id is null or names a tier of the list that is visible and not
\* locked.
C23_ActiveTierEligible ==
  settings.activeTierId # NoId =>
    \E i \in 1..Len(settings.tiers) :
      /\ settings.tiers[i].id = settings.activeTierId
      /\ settings.tiers[i].visible
      /\ ~settings.tiers[i].locked

\* a file read settled after the current video had changed since it began
StaleReadSettled == last.op = "getFile" /\ last.args[1].stale

\* C24: when the current video changes before a lazy file read started for
\* a video settles, the read's result is discarded: no object URL is created,
\* none is stored for any video, and the source of the video element is as
\* before.
C24_StaleReadDiscarded ==
  StaleReadSettled =>
    /\ player.urls = last.args[3]
    /\ player.objectUrl = last.args[2]
    /\ player.src = last.args[4]

\* the stale read settled when its video was the current one again and had
\* no object URL: only the cancelled flag of its effect holds it back
C24_StaleReadOfCurrentVideo ==
  /\ StaleReadSettled
  /\ last.args[1].videoId = videoId
  /\ player.objectUrl[videoId] = 0

\* C25: at most one animation frame callback of the time update loop is
\* scheduled at any time, and none is scheduled once the listener of pause,
\* ended or emptied has run or the video element has been replaced.
C25_AtMostOneFrameLoop ==
  /\ Cardinality(playback.scheduled) <= 1
  /\ last.op \in {"pause", "ended", "emptied", "replaced"} => playback.scheduled = {}

\* the loop was running when the play event arrived (the effect had started
\* it on a re-run), and one callback is scheduled: the earlier one was
\* cancelled
C25_RestartedWhileRunning ==
  /\ last.op = "play"
  /\ playback.animFrameRef > 1
  /\ playback.scheduled = {playback.animFrameRef}

\* the loop was running when the media was paused, and none is scheduled
C25_StoppedRunningLoop ==
  /\ last.op = "pause"
  /\ playback.handles > 0
  /\ playback.scheduled = {}

\* C26: for an existing marker and maxMs >= 0, nudgeMarker(id, deltaMs, maxMs)
\* leaves the marker at min(max(time + deltaMs, 0), maxMs), and every other
\* marker where it was.
C26_NudgeClamps ==
  (last.op = "nudgeMarker" /\ last.args[3] >= 0) =>
    /\ Len(annStore.markers) = Len(last.pre.markers)
    /\ \A i \in 1..Len(last.pre.markers) :
         annStore.markers[i] =
           IF last.pre.markers[i].id = last.args[1]
           THEN [last.pre.markers[i] EXCEPT
                   !.time = Min(Max(last.pre.markers[i].time + last.args[2], 0), last.args[3])]
           ELSE last.pre.markers[i]

\* a marker at 5 ms was nudged by -10 ms with maxMs = 10000 and stands at 0
C26_NudgedBelowZero ==
  /\ last.op = "nudgeMarker"
  /\ last.args[2] = -10 /\ last.args[3] = 10000
  /\ HasMarker(last.pre.markers, last.args[1])
  /\ FindMarker(last.pre.markers, last.args[1]).time = 5
  /\ FindMarker(annStore.markers, last.args[1]).time = 0

\* the ids of the saved markers whose video was remapped
RemappedMarkerIds ==
  {m.id : m \in {n \in Range(last.args[1].markers) :
                   n.videoId \in DOMAIN oldIdToNewId(last.args[1].videos, last.args[2])}}

\* C27: after session recovery every span of the store has both of its
\* anchors among the markers of the store, and a saved span with an anchor
\* that is not among the remapped markers is not in the store.
C27_RestoredSpansHaveAnchors ==
  last.op = "recoverSession" =>
    /\ \A i \in 1..Len(annStore.spans) : Resolves(annStore.markers, annStore.spans[i])
    /\ \A sp \in Range(last.args[1].spans) :
         (sp.startMarkerId \notin RemappedMarkerIds \/ sp.endMarkerId \notin RemappedMarkerIds) =>
           ~HasSpan(annStore.spans, sp.id)

\* the saved span's own video was remapped and one of its anchors lies on a
\* video that was not, while markers were restored
C27_SpanLostAnAnchor ==
  /\ last.op = "recoverSession"
  /\ Len(annStore.markers) > 0
  /\ \E sp \in Range(last.args[1].spans) :
       /\ sp.videoId \in DOMAIN oldIdToNewId(last.args[1].videos, last.args[2])
       /\ sp.startMarkerId \in {m.id : m \in Range(last.args[1].markers)}
       /\ sp.endMarkerId \in {m.id : m \in Range(last.args[1].markers)}
       /\ sp.startMarkerId # sp.endMarkerId
       /\ sp.startMarkerId \in RemappedMarkerIds
       /\ sp.endMarkerId \notin RemappedMarkerIds

\* the markers and the spans of a video in a store
OfVideo(s, video) ==
  <<SelectSeq(s.markers, LAMBDA m : m.videoId = video),
    SelectSeq(s.spans, LAMBDA sp : sp.videoId = video)>>

\* C28: when an EAF read settles, a video that has markers in the store at
\* that moment keeps exactly its markers and spans: annotations are imported
\* only into a video that has no marker then.
C28_ImportOnlyIntoEmptyVideo ==
  last.op = "eafRead" =>
    \A video \in Videos :
      OfVideo(last.pre, video)[1] # <<>> => OfVideo(annStore, video) = OfVideo(last.pre, video)

\* the read of the effect's current run settled for a video on which the
\* user had placed a marker in the meantime
C28_ReadFoundMarkers ==
  /\ last.op = "eafRead"
  /\ ~last.args[1].cancelled
  /\ OfVideo(last.pre, last.args[1].videoId)[1] # <<>>
  /\ annStore = last.pre

\* C29 (as claimed): the file an export writes, to a local folder or to a
\* remote path, has a name under which no file existed at the output
\* location.
C29_ExportNeverReplaces ==
  last.op = "export" => ~fileExists(last.args[3], last.ret)

\* the same for exports to a local folder
C29_LocalExportNeverReplaces ==
  (last.op = "export" /\ last.args[1] = "local") => ~fileExists(last.args[3], last.ret)

\* the export is the claim's: the anchors of the span are confirmed and
\* stand at 500 ms and 1500 ms
AnchorsAt500And1500(o) ==
  /\ o.markers[1].confirmed /\ o.markers[1].time = 5000
  /\ o.markers[Len(o.markers)].confirmed /\ o.markers[Len(o.markers)].time = 15000

\* the import has one span of that gloss with anchors within 1 ms of 500
\* and 1500
OneSpan500To1500(r, gloss) ==
  /\ ~r.threw
  /\ Len(r.spans) = 1
  /\ r.spans[1].gloss = gloss
  /\ \E i, j \in 1..Len(r.markers) :
       /\ r.markers[i].id = r.spans[1].startMarkerId
       /\ r.markers[j].id = r.spans[1].endMarkerId
       /\ r.markers[i].time \in 499..501
       /\ r.markers[j].time \in 1499..1501

\* C30 (as claimed): a tier with one span of gloss G and confirmed anchors at
\* 500 ms and 1500 ms, exported with generateEaf and imported with
\* importDcalAnnotationsFromEaf, gives exactly one span of gloss G with
\* anchors within 1 ms of 500 and 1500.
C30_RoundTripKeepsSpan ==
  (last.op = "importDcalAnnotationsFromEaf" /\ AnchorsAt500And1500(last.args[1]))
    => OneSpan500To1500(last.ret, last.args[1].spans[1].gloss)

\* the same for exports whose strings hold no character that XML forbids
C30_RoundTripOfXmlText ==
  (/\ last.op = "importDcalAnnotationsFromEaf"
   /\ AnchorsAt500And1500(last.args[1])
   /\ \A i \in 1..Len(last.args[1].spans[1].gloss) : last.args[1].spans[1].gloss[i] # ESC)
    => OneSpan500To1500(last.ret, last.args[1].spans[1].gloss)

\* the glosses of the kept and of the removed span before a merge, the empty
\* ones left out
GlossParts(s, keepSpanId, removeSpanId) ==
  SelectSeq(<<FindSpan(s.spans, keepSpanId).gloss, FindSpan(s.spans, removeSpanId).gloss>>,
            LAMBDA g : g # "")

C31_MergedWithEmptyGloss ==
  /\ last.op = "mergeSpans" /\ last.ret
  /\ Len(GlossParts(last.pre, last.args[1], last.args[2])) = 1

\* a resize drag was released in a flagged merge state and mergeSpans
\* rejected the merge
MergeRejectedOnRelease ==
  /\ last.op = "pointerUp"
  /\ last.drag.mode = "span-resize"
  /\ last.drag.inMergeZone /\ last.drag.mergeTargetSpanId # NoId /\ last.drag.spanId # NoId
  /\ ~mergeSpansReturns(commitResizeNoMerge(last.pre, last.drag),
                        last.drag.spanId, last.drag.mergeTargetSpanId)

\* C32 (as claimed): when a resize drag is released in a flagged merge state
\* and mergeSpans rejects the merge, markers and spans are as they were
\* before the drag began.
C32_RejectedMergeFailsClosed ==
  MergeRejectedOnRelease =>
    (annStore.markers = last.pre.markers /\ annStore.spans = last.pre.spans)

\* a create-span or draw-span gesture was released far enough from its start
\* for a span, and the store holds no span more than before: addSpan
\* rejected it
SpanGestureRejected ==
  /\ last.op = "pointerUp"
  /\ \/ /\ last.drag.mode = "span"
        /\ HasMarker(last.pre.markers, last.drag.markerId)
     \/ last.drag.mode = "draw"
  /\ Abs(last.drag.currentTimeMs - last.drag.originalTimeMs) > 50
  /\ Len(annStore.spans) = Len(last.pre.spans)

\* C33 (as claimed): a create-span or draw-span gesture whose span addSpan
\* rejects leaves no marker of its own in the store and alters no marker
\* and no span.
C33_RejectedSpanCreatesNothing ==
  SpanGestureRejected =>
    (annStore.markers = last.pre.markers /\ annStore.spans = last.pre.spans)

\* the hold that was active before the last event is no longer the hold of
\* holdRef
HoldEnded == last.hold # NoHold /\ holdRef # last.hold

\* C34 (as claimed): an active hold ends only by the release of its own key,
\* by playback stopping or by a switch of the video; a key-down never
\* replaces or drops it.
C34_HoldEndsByItsExits ==
  HoldEnded =>
    \/ last.op = "keyUp" /\ last.args[1] = last.hold.key
    \/ last.op = "pause"
    \/ last.op = "setCurrentVideo"

\* C35 (as claimed): selectedSpanId and editingSpanId are each null or the
\* id of a span of the store.
C35_SpanRefsResolve ==
  /\ annStore.selectedSpanId # NoId => HasSpan(annStore.spans, annStore.selectedSpanId)
  /\ annStore.editingSpanId # NoId => HasSpan(annStore.spans, annStore.editingSpanId)

\* C36: the Undo of the toast raised by deleting the selected span brings
\* markers and spans back to what they were immediately before the delete;
\* stated for an Undo that finds markers and spans as the delete left them
SpanDeleteUndone ==
  /\ last.op = "toastUndo"
  /\ last.args[1].kind = "Deleted span + markers"
  /\ partialize(last.pre) = partialize(last.args[1].after)
C36_UndoRestoresDeletedSpan ==
  SpanDeleteUndone => partialize(annStore) = last.args[1].before

\* C36, the Undo pressed with nothing between it and the delete: then the
\* three steps do undo the three removals
C36_ImmediateUndoRestoresDeletedSpan ==
  (SpanDeleteUndone /\ last.pre = last.args[1].after)
    => partialize(annStore) = last.args[1].before

\* C37: the Undo of the toast raised by a drag-resize merge brings markers
\* and spans back to what they were before the resize drag began (the drag
\* changes neither before its release: ResizeDragKeepsStore)
MergeUndone == last.op = "toastUndo" /\ last.args[1].kind = "Spans merged"
C37_UndoRestoresBeforeResize ==
  MergeUndone => partialize(annStore) = last.args[1].before

\* from the press that begins a resize drag to its release, markers and
\* spans stay as they are
ResizeDragKeepsStore ==
  [][dragRef'.mode = "span-resize" => partialize(annStore') = partialize(annStore)]_vars

\* C37, by halves: the Undo does bring back both spans, and it does so with
\* all markers at their times when the release did not move the dragged edge
C37_UndoRestoresSpans ==
  MergeUndone => annStore.spans = last.args[1].before.spans
C37_UndoOfUnmovedEdgeRestores ==
  (MergeUndone /\ Len(last.pre.pastStates) >= 1
     /\ last.pre.pastStates[Len(last.pre.pastStates)] = last.args[1].before)
    => partialize(annStore) = last.args[1].before

\* C38: once the scroll target stays fixed and nothing else changes, the
\* scroll position comes within 0.5 px of the target after finitely many
\* frames, and from then on no frame repaints
Near == ~smoothing(view)
Repainted == last.op = "frame" /\ last.ret
C38_ScrollSettles == <>[](Near /\ ~Repainted)

\* C38 for a canvas that has a size, with no drag, no scrub and no playback
\* going on
Quiet == paints(view) /\ ~isPlaying /\ ~scrubRef /\ dragRef = NoDrag
C38_ScrollSettlesWhenQuiet == <>[](Quiet => (Near /\ ~Repainted))

\* a frame that did not repaint: the position is within 0.5 px of the
\* target and has not reached it
C38_SettledShortOfTarget ==
  /\ last.op = "frame" /\ ~last.ret
  /\ Quiet /\ Near
  /\ view.scrollLeft # view.targetScrollLeft

\* C39: after every keyboard handler, finalize step and cancel step the
\* hook's holdRef is non-null exactly when the ui store's activeHold is
C39_HoldRefMatchesActiveHold == (holdRef # NoHold) <=> (activeHold # NoActiveHold)

\* a hold has begun and shows, and a hold has ended and shows no more
C39_HoldShown == last.op = "keyDown" /\ last.hold = NoHold /\ holdRef # NoHold /\ activeHold # NoActiveHold
C39_HoldEndedAndHidden ==
  /\ last.op \in {"keyUp", "setCurrentVideo"} /\ last.hold # NoHold
  /\ holdRef = NoHold /\ activeHold = NoActiveHold

====
